---- MODULE Spec2Model ----
(***************************************************************************)
(* Model of the valuation engine of src/app.py: compute_metrics, pmt,      *)
(* _npv_safe, irr_robust, build_cashflows and aire_grade.                  *)
(*                                                                         *)
(* Python floats are modelled as decimal floating-point numbers            *)
(*     [m |-> mantissa, e |-> exponent]   with value  m * 10^(e-7),        *)
(* 10^7 <= |m| < 10^8 (eight significant digits), zero as m = 0, and the   *)
(* IEEE specials +inf, -inf and nan.  The exponent range is that of the    *)
(* binary64 format (largest finite value 1.7976931e308), so overflow of a  *)
(* product or a quotient to an infinity, inf - inf = nan, and the          *)
(* exceptions of math.exp, math.log1p and of a division by zero happen in  *)
(* the model where they happen in the program.  Every intermediate integer *)
(* stays below 2^31.                                                       *)
(***************************************************************************)
EXTENDS Integers, Sequences, FiniteSets, TLC

P3 == 10^3
P4 == 10^4
P7 == 10^7
P8 == 10^8
ESpecial == 10^4

Zero == [m |-> 0, e |-> 0]
PInf == [m |-> 1, e |-> ESpecial]
NInf == [m |-> -1, e |-> ESpecial]
NaN == [m |-> 0, e |-> ESpecial]

Abs(n) == IF n < 0 THEN -n ELSE n
Sgn(n) == IF n < 0 THEN -1 ELSE IF n > 0 THEN 1 ELSE 0

IsNaN(x) == x.e = ESpecial /\ x.m = 0
IsInf(x) == x.e = ESpecial /\ x.m # 0
isfinite(x) == x.e # ESpecial

\* number of decimal digits of a, 1 <= a < 2^31
Digits(a) ==
    IF a < 10^5
    THEN (IF a < 10 THEN 1 ELSE IF a < 100 THEN 2 ELSE IF a < P3 THEN 3
          ELSE IF a < P4 THEN 4 ELSE 5)
    ELSE (IF a < 10^6 THEN 6 ELSE IF a < P7 THEN 7 ELSE IF a < P8 THEN 8
          ELSE IF a < 10^9 THEN 9 ELSE 10)

\* a / 10^k rounded to nearest, a >= 0, 0 <= k <= 9
Round(a, k) == IF k = 0 THEN a ELSE (a \div 10^k) + (IF 2 * (a % 10^k) >= 10^k THEN 1 ELSE 0)

\* the float range: overflow gives an infinity, underflow gives zero
Range(m, e) ==
    IF e > 308 \/ (e = 308 /\ Abs(m) > 17976931)
    THEN (IF m > 0 THEN PInf ELSE NInf)
    ELSE IF e < -324 THEN Zero ELSE [m |-> m, e |-> e]

\* the float of value m * 10^(e-7), for any integer |m| < 2^31
Norm(m, e) ==
    LET Carry(a1, e1) ==
            IF a1 >= P8 THEN Range(Sgn(m) * (a1 \div 10), e1 + 1) ELSE Range(Sgn(m) * a1, e1)
        Scale(a, d) == Carry(IF d > 8 THEN Round(a, d - 8) ELSE a * 10^(8 - d), e + d - 8)
        Sized(a) == Scale(a, Digits(a))
    IN IF m = 0 THEN Zero ELSE Sized(Abs(m))

FromInt(n) == Norm(n, 7)
\* the float literal m * 10^p
MkF(m, p) == Norm(m, p + 7)

One == FromInt(1)
Two == FromInt(2)

FNeg(x) == [m |-> -x.m, e |-> x.e]
FAbs(x) == [m |-> Abs(x.m), e |-> x.e]

FAdd(x, y) ==
    IF IsNaN(x) \/ IsNaN(y) THEN NaN
    ELSE IF IsInf(x) THEN (IF IsInf(y) /\ y.m # x.m THEN NaN ELSE x)
    ELSE IF IsInf(y) THEN y
    ELSE IF x.m = 0 THEN y
    ELSE IF y.m = 0 THEN x
    ELSE LET hi == IF x.e >= y.e THEN x ELSE y
             lo == IF x.e >= y.e THEN y ELSE x
             d == hi.e - lo.e
         IN IF d > 9 THEN hi
            ELSE Norm(hi.m * 10 + Sgn(lo.m) * Round(Abs(lo.m) * 10, d), hi.e - 1)

FSub(x, y) == FAdd(x, FNeg(y))

\* a * b / 10^7 for mantissas 10^7 <= a, b < 10^8
MulMant(a, b) ==
    LET a1 == a \div P4
        a0 == a % P4
        b1 == b \div P4
        b0 == b % P4
    IN a1 * b1 * 10 + (a1 * b0 + a0 * b1) \div P3 + (a0 * b0) \div P7

FMul(x, y) ==
    IF IsNaN(x) \/ IsNaN(y) THEN NaN
    ELSE IF IsInf(x) \/ IsInf(y)
         THEN (IF x.m = 0 \/ y.m = 0 THEN NaN
               ELSE IF Sgn(x.m) = Sgn(y.m) THEN PInf ELSE NInf)
    ELSE IF x.m = 0 \/ y.m = 0 THEN Zero
    ELSE Norm(Sgn(x.m) * Sgn(y.m) * MulMant(Abs(x.m), Abs(y.m)), x.e + y.e)

\* n more decimal digits of the quotient q.r / d
RECURSIVE LongDiv(_, _, _, _)
LongDiv(q, r, d, n) ==
    IF n = 0 THEN q
    ELSE LongDiv(q * 10 + (r * 10) \div d, (r * 10) % d, d, n - 1)

\* x / y for y # 0 (Python raises ZeroDivisionError for y = 0: see DivRaises)
FDiv(x, y) ==
    IF IsNaN(x) \/ IsNaN(y) THEN NaN
    ELSE IF IsInf(x)
         THEN (IF IsInf(y) THEN NaN
               ELSE IF Sgn(x.m) * (IF y.m < 0 THEN -1 ELSE 1) > 0 THEN PInf ELSE NInf)
    ELSE IF IsInf(y) THEN Zero
    ELSE IF x.m = 0 THEN Zero
    ELSE LET a == Abs(x.m)
             b == Abs(y.m)
         IN Norm(Sgn(x.m) * Sgn(y.m) * LongDiv(a \div b, a % b, b, 8), x.e - y.e - 1)

DivRaises(y) == y = Zero

\* x < y on floats; every comparison with nan is false
FLt(x, y) ==
    /\ ~IsNaN(x)
    /\ ~IsNaN(y)
    /\ LET sx == Sgn(x.m)
           sy == Sgn(y.m)
       IN IF sx # sy THEN sx < sy
          ELSE IF sx = 0 THEN FALSE
          ELSE IF sx > 0 THEN x.e < y.e \/ (x.e = y.e /\ x.m < y.m)
          ELSE x.e > y.e \/ (x.e = y.e /\ x.m < y.m)
FGt(x, y) == FLt(y, x)
FEq(x, y) == ~IsNaN(x) /\ ~IsNaN(y) /\ x = y
FLe(x, y) == FLt(x, y) \/ FEq(x, y)
FGe(x, y) == FLe(y, x)
FMax(x, y) == IF FGt(y, x) THEN y ELSE x
FMin(x, y) == IF FLt(y, x) THEN y ELSE x

(* ---------- math.exp, math.log1p and ** ---------- *)
LN10 == MkF(23025851, -7)
LN2 == MkF(69314718, -8)

\* a * b / 10^8 rounded, for 0 <= a <= 2 * 10^8 and 0 <= b < 10^8
MulS8(a, b) ==
    LET a1 == a \div P4
        a0 == a % P4
        b1 == b \div P4
        b0 == b % P4
    IN a1 * b1 + Round(a1 * b0 + a0 * b1 + (a0 * b0) \div P4, 4)

\* x * 10^6 as an integer, for a finite |x| < 1000
ToFix6(x) ==
    IF x.e >= 1 THEN x.m * 10^(x.e - 1)
    ELSE IF 1 - x.e > 9 THEN 0
    ELSE Sgn(x.m) * Round(Abs(x.m), 1 - x.e)

LN10_6 == ToFix6(LN10)

\* x * 10^8 as an integer, for a finite |x| < 10
ToFix8(x) ==
    IF x.e = 0 THEN x.m * 10
    ELSE IF -x.e - 1 > 9 THEN 0
    ELSE Sgn(x.m) * Round(Abs(x.m), -x.e - 1)

LN10_8 == ToFix8(LN10)

\* sum of g^n / n! at scale 10^8, 0 <= g < 0.6
RECURSIVE ExpSeries(_, _, _, _)
ExpSeries(g, n, term, acc) ==
    IF term = 0 THEN acc
    ELSE ExpSeries(g, n + 1, (MulS8(term, g) + n \div 2) \div n, acc + term)

\* math.exp raises OverflowError above ln(max float) = 709.78
ExpRaises(x) == isfinite(x) /\ FGt(x, MkF(70978271, -5))

\* math.exp(x) where it does not raise: 10^k * exp(f / 4)^4 with x = k ln 10 + f,
\* f taken at scale 10^8 for |x| < 10 and at scale 10^6 above
FExp(x) ==
    IF IsNaN(x) THEN NaN
    ELSE IF IsInf(x) THEN (IF x.m > 0 THEN PInf ELSE Zero)
    ELSE IF x.m = 0 THEN One
    ELSE IF x.e >= 3 THEN (IF x.m > 0 THEN PInf ELSE Zero)
    ELSE LET Sq(y) == FMul(y, y)
             Shift(b4, k) == Range(b4.m, b4.e + k)
             Quarter(g, k) == Shift(Sq(Sq(Norm(ExpSeries(g, 1, P8, 0), -1))), k)
             Split(fx, l, scale) == Quarter(IF scale = 8 THEN (fx % l) \div 4 ELSE (fx % l) * 25,
                                            fx \div l)
         IN IF x.e <= 0 THEN Split(ToFix8(x), LN10_8, 8) ELSE Split(ToFix6(x), LN10_6, 6)

\* sum of w^k / (2k+1) at scale 10^8, 0 <= w < 0.1
RECURSIVE AtanhSeries(_, _, _, _)
AtanhSeries(w, k, pw, acc) ==
    IF pw = 0 THEN acc
    ELSE AtanhSeries(w, k + 1, MulS8(pw, w), acc + pw \div (2 * k + 1))

\* ln(1 + r) for |r| < 0.42: 2 z (1 + z^2/3 + z^4/5 + ...), z = r / (2 + r)
LnCore(r) ==
    LET Series(z) ==
            FMul(FMul(Two, z), Norm(AtanhSeries(ToFix8(FMul(z, z)), 0, P8, 0), -1))
    IN IF r.m = 0 THEN Zero ELSE Series(FDiv(r, FAdd(Two, r)))

\* ln(x) for a finite x > 0: e ln 10 + j ln 2 + ln(u / 2^j), 1 <= u < 10
FLn(x) ==
    IF (x.e = 0 /\ x.m < 14142136) \/ (x.e = -1 /\ x.m > 70710678) THEN LnCore(FSub(x, One))
    ELSE
    LET j == IF x.m >= 56568542 THEN 3 ELSE IF x.m >= 28284271 THEN 2
             ELSE IF x.m >= 14142136 THEN 1 ELSE 0
        v == FDiv([m |-> x.m, e |-> 0], FromInt(2^j))
    IN FAdd(FAdd(FMul(FromInt(x.e), LN10), FMul(FromInt(j), LN2)), LnCore(FSub(v, One)))

\* math.log1p raises ValueError for x <= -1
Log1pRaises(x) == IsNaN(x) = FALSE /\ FLe(x, FromInt(-1))

\* math.log1p(x) where it does not raise
FLog1p(x) ==
    IF IsNaN(x) THEN NaN
    ELSE IF IsInf(x) THEN PInf
    ELSE IF FLt(FAbs(x), MkF(4, -1)) THEN LnCore(x)
    ELSE FLn(FAdd(One, x))


(* ---------- _npv_safe ---------- *)
\* a call's outcome: a returned float, or an exception that escapes
Ret(x) == [exc |-> FALSE, v |-> x]
Raise == [exc |-> TRUE, v |-> NaN]

RateFloor == MkF(-999999, -6)
ExpClamp == FromInt(700)

\* the domain guard with < for <=
DomainGuard_strict(rate) == FLt(rate, RateFloor)

\* the domain guard: rate <= -0.999999
DomainGuard(rate) == FLe(rate, RateFloor)

\* the discount factor of one period: exp(exp_arg) between the two clamps
Discount(exp_arg) ==
    IF FGt(exp_arg, ExpClamp) THEN Ret(PInf)
    ELSE IF FLt(exp_arg, FNeg(ExpClamp)) THEN Ret(Zero)
    ELSE IF ExpRaises(exp_arg) THEN Raise
    ELSE Ret(FExp(exp_arg))

\* one cash flow over its discount factor d = [exc, v], added to the running
\* total; acc = [done, exc, total], done once the loop has returned or raised
Term(acc, cf, d) ==
    IF d.exc THEN [done |-> TRUE, exc |-> TRUE, total |-> NaN]
    ELSE IF FEq(d.v, Zero)
    THEN [done |-> TRUE, exc |-> FALSE, total |-> IF FGt(cf, Zero) THEN PInf ELSE NInf]
    ELSE IF FEq(d.v, PInf) THEN acc
    ELSE IF DivRaises(d.v) THEN [done |-> TRUE, exc |-> TRUE, total |-> NaN]
    ELSE [done |-> FALSE, exc |-> FALSE, total |-> FAdd(acc.total, FDiv(cf, d.v))]

\* the loop body for period t (cashflows[t + 1] here, lists being 0-based there)
NpvStep(acc, t, cashflows, lr) ==
    Term(acc, cashflows[t + 1], Discount(FMul(FromInt(t), lr)))

\* the loop over periods lo..hi in order, stopping at the first return
RECURSIVE NpvLoop(_, _, _, _, _)
NpvLoop(acc, lo, hi, cashflows, lr) ==
    IF acc.done \/ lo > hi THEN acc
    ELSE IF lo = hi THEN NpvStep(acc, lo, cashflows, lr)
    ELSE LET mid == (lo + hi) \div 2
             left == NpvLoop(acc, lo, mid, cashflows, lr)
         IN NpvLoop(left, mid + 1, hi, cashflows, lr)

npv_safe(rate, cashflows) ==
    IF DomainGuard(rate) THEN Ret(PInf)
    ELSE IF Log1pRaises(rate) THEN Raise
    ELSE LET Outcome(r) == IF r.exc THEN Raise ELSE Ret(r.total)
         IN Outcome(NpvLoop([done |-> FALSE, exc |-> FALSE, total |-> Zero],
                            0, Len(cashflows) - 1, cashflows, FLog1p(rate)))


(* ---------- irr_robust ---------- *)
grid == << MkF(-95, -2), MkF(-8, -1), MkF(-6, -1), MkF(-4, -1), MkF(-2, -1), MkF(-1, -1),
           MkF(-5, -2), MkF(-2, -2), Zero, MkF(1, -2), MkF(2, -2), MkF(5, -2), MkF(1, -1),
           MkF(2, -1), MkF(35, -2), MkF(5, -1), MkF(75, -2), One, MkF(15, -1), Two,
           FromInt(3), FromInt(5) >>

\* a loop of half as many iterations
BisectIters_half == 80 \div 2

BisectIters == 80
NpvTol == MkF(1, -6)

\* vals: _npv_safe at every grid rate, an exception there recorded as nan
GridVals(cashflows) ==
    LET Val(r) == IF r.exc THEN NaN ELSE r.v
    IN [i \in 1..Len(grid) |-> Val(npv_safe(grid[i], cashflows))]

\* fa and fm have strictly opposite signs
OppositeSigns(fa, fm) ==
    (FGt(fa, Zero) /\ FLt(fm, Zero)) \/ (FLt(fa, Zero) /\ FGt(fm, Zero))

\* the scan that does not skip a pair with a non-finite NPV
RECURSIVE Scan_noskip(_, _)
Scan_noskip(vals, i) ==
    IF i > Len(grid) - 1 THEN [kind |-> "none", i |-> 0, v |-> Zero]
    ELSE IF FEq(vals[i], Zero) THEN [kind |-> "ret", i |-> i, v |-> grid[i]]
    ELSE IF FEq(vals[i + 1], Zero) THEN [kind |-> "ret", i |-> i, v |-> grid[i + 1]]
    ELSE IF OppositeSigns(vals[i], vals[i + 1]) THEN [kind |-> "bracket", i |-> i, v |-> Zero]
    ELSE Scan_noskip(vals, i + 1)

\* the scan of adjacent grid pairs from pair i on: a grid point returned
\* ("ret"), the first bracket ("bracket", pair i), or neither ("none")
RECURSIVE Scan(_, _)
Scan(vals, i) ==
    IF i > Len(grid) - 1 THEN [kind |-> "none", i |-> 0, v |-> Zero]
    ELSE IF ~(isfinite(vals[i]) /\ isfinite(vals[i + 1])) THEN Scan(vals, i + 1)
    ELSE IF FEq(vals[i], Zero) THEN [kind |-> "ret", i |-> i, v |-> grid[i]]
    ELSE IF FEq(vals[i + 1], Zero) THEN [kind |-> "ret", i |-> i, v |-> grid[i + 1]]
    ELSE IF OppositeSigns(vals[i], vals[i + 1]) THEN [kind |-> "bracket", i |-> i, v |-> Zero]
    ELSE Scan(vals, i + 1)

\* the fallback without its nan test
IrrFallback_nocheck(np) == IF ~np.raises THEN np.v ELSE Zero

\* the fallback without the final return 0.0
IrrFallback_nosentinel(np) == IF ~np.raises /\ ~IsNaN(np.v) THEN np.v ELSE NaN

\* no bracket: np.irr, which may be missing or raise (raises), or return
\* any float; its value is returned unless it is nan, else 0.0
IrrFallback(np) == IF ~np.raises /\ ~IsNaN(np.v) THEN np.v ELSE Zero

\* what np.irr may do: numpy is not part of the program
NpOutcomes == { [raises |-> TRUE, v |-> NaN], [raises |-> FALSE, v |-> NaN],
                [raises |-> FALSE, v |-> MkF(7, -2)], [raises |-> FALSE, v |-> PInf],
                [raises |-> FALSE, v |-> NInf] }

\* one bisection iteration on the bracket (a, fa): the midpoint, nudged
\* toward a once when its NPV is not finite; [exc, mid, fm]
Midpoint(a, b, cashflows) ==
    LET At(mid, r) == IF r.exc THEN [exc |-> TRUE, mid |-> mid, fm |-> NaN]
                      ELSE [exc |-> FALSE, mid |-> mid, fm |-> r.v]
        Nudged(mid2) == At(mid2, npv_safe(mid2, cashflows))
        First(mid, r1) == IF r1.exc \/ isfinite(r1.v) THEN At(mid, r1)
                          ELSE Nudged(FDiv(FAdd(mid, a), Two))
        Try(mid) == First(mid, npv_safe(mid, cashflows))
    IN Try(FDiv(FAdd(a, b), Two))

\* the tolerance test without abs
Converged_noabs(fm) == FLt(fm, NpvTol)

\* the tolerance test with 1e-2 for 1e-6
Converged_loose(fm) == FLt(FAbs(fm), MkF(1, -2))

\* |fm| < 1e-6: the iteration returns mid
Converged(fm) == FLt(FAbs(fm), NpvTol)


(* ---------- aire_grade ---------- *)
\* text as the sequence of its character codes
Str_Core == <<67, 111, 114, 101>>
Str_value_add == <<118, 97, 108, 117, 101, 45, 97, 100, 100>>
Str_growth == <<103, 114, 111, 119, 116, 104>>

\* str.lower on the letters A..Z
LowerChar(c) == IF c >= 65 /\ c <= 90 THEN c + 32 ELSE c
lower(s) == [i \in 1..Len(s) |-> LowerChar(s[i])]

\* a text value or None
NoneStr == [t |-> "none", s |-> <<>>]
Text(s) == [t |-> "str", s |-> s]

\* the profile name compared without lower-casing
ProfileName_nolower(sp) == IF sp.t = "none" \/ sp.s = <<>> THEN Str_Core ELSE sp.s

\* (scoring_profile or "Core").lower()
ProfileName(sp) == lower(IF sp.t = "none" \/ sp.s = <<>> THEN Str_Core ELSE sp.s)

\* the three profile-dependent amounts
ProfileParams(sp) ==
    LET profile == ProfileName(sp)
    IN IF profile = Str_value_add
       THEN [oer_high_pen |-> 14, irr_bonus_high |-> 6, cap_low_pen |-> 10]
       ELSE IF profile = Str_growth
       THEN [oer_high_pen |-> 12, irr_bonus_high |-> 8, cap_low_pen |-> 8]
       ELSE [oer_high_pen |-> 18, irr_bonus_high |-> 4, cap_low_pen |-> 12]

\* calib.get(key, 0.0): a key of the calibration record is <<>> when absent
CalibGet(c, key) == IF c[key] = <<>> THEN Zero ELSE c[key][1]

\* score -= n (n < 0 for +=) and flags.append(flag)
Penalty(st, n, flag) ==
    [score |-> FSub(st.score, FromInt(n)), flags |-> Append(st.flags, flag)]

\* the flags (the dash stands for the source's long dash)
FlagOerHigh == "High operating expense ratio (>55%)."
FlagOerElevated == "Elevated operating expense ratio (>45%)."
FlagOerLow == "Unusually low expense ratio - verify inputs."
FlagCapNone == "Cap rate unavailable - missing NOI or price."
FlagCapLow == "Low cap rate - thin yield."
FlagCapHigh == "High cap rate - verify condition/risks."
FlagVacHigh == "High vacancy assumption (>12%)."
FlagVacLow == "Very low vacancy - confirm market realism."
FlagIrrLow == "Low IRR (<8%) in base case."
FlagIrrHigh == "High IRR (>18%) - double-check assumptions."

\* the expense-ratio rules with if for the first elif
OerRule_noelif(st, oer, p) ==
    LET s1 == IF FGt(oer, MkF(55, -2)) THEN Penalty(st, p.oer_high_pen, FlagOerHigh) ELSE st
    IN IF FGt(oer, MkF(45, -2)) THEN Penalty(s1, 10, FlagOerElevated)
       ELSE IF FLt(oer, MkF(25, -2)) THEN Penalty(s1, 6, FlagOerLow)
       ELSE s1

OerRule(st, oer, p) ==
    IF FGt(oer, MkF(55, -2)) THEN Penalty(st, p.oer_high_pen, FlagOerHigh)
    ELSE IF FGt(oer, MkF(45, -2)) THEN Penalty(st, 10, FlagOerElevated)
    ELSE IF FLt(oer, MkF(25, -2)) THEN Penalty(st, 6, FlagOerLow)
    ELSE st

\* the cap-rate rules with 0.45 for 0.045
CapRule_typo(st, cap, p) ==
    IF FLe(cap, Zero) THEN Penalty(st, 18, FlagCapNone)
    ELSE IF FLt(cap, MkF(45, -2)) THEN Penalty(st, p.cap_low_pen, FlagCapLow)
    ELSE IF FGt(cap, MkF(9, -2)) THEN Penalty(st, -4, FlagCapHigh)
    ELSE st

\* the cap-rate rules with if for the first elif
CapRule_noelif(st, cap, p) ==
    LET s1 == IF FLe(cap, Zero) THEN Penalty(st, 18, FlagCapNone) ELSE st
    IN IF FLt(cap, MkF(45, -3)) THEN Penalty(s1, p.cap_low_pen, FlagCapLow)
       ELSE IF FGt(cap, MkF(9, -2)) THEN Penalty(s1, -4, FlagCapHigh)
       ELSE s1

CapRule(st, cap, p) ==
    IF FLe(cap, Zero) THEN Penalty(st, 18, FlagCapNone)
    ELSE IF FLt(cap, MkF(45, -3)) THEN Penalty(st, p.cap_low_pen, FlagCapLow)
    ELSE IF FGt(cap, MkF(9, -2)) THEN Penalty(st, -4, FlagCapHigh)
    ELSE st

VacRule(st, vac) ==
    IF FGt(vac, MkF(12, -2)) THEN Penalty(st, 10, FlagVacHigh)
    ELSE IF FLt(vac, MkF(4, -2)) THEN Penalty(st, 4, FlagVacLow)
    ELSE st

IrrRule(st, irr_adj, p) ==
    IF FLt(irr_adj, MkF(8, -2)) THEN Penalty(st, 8, FlagIrrLow)
    ELSE IF FGt(irr_adj, MkF(18, -2)) THEN Penalty(st, -(p.irr_bonus_high), FlagIrrHigh)
    ELSE st

\* the score left as it is
ClampScore_none(score) == score

\* max(0, min(100, score))
ClampScore(score) == FMax(Zero, FMin(FromInt(100), score))

Letter(score) ==
    IF FGe(score, FromInt(90)) THEN "A"
    ELSE IF FGe(score, FromInt(80)) THEN "B"
    ELSE IF FGe(score, FromInt(70)) THEN "C"
    ELSE IF FGe(score, FromInt(60)) THEN "D"
    ELSE "F"

\* the returned record, with the locals pens (the profile's amounts) and raw
\* (the score before line 858)
aire_grade(m, irr_a, c, sp) ==
    LET Result(st, score, irr_adj, p) ==
            [score |-> score, letter |-> Letter(score), flags |-> st.flags,
             irr_adj |-> irr_adj, profile |-> sp, pens |-> p, raw |-> st.score]
        Clamped(st, irr_adj, p) == Result(st, ClampScore(st.score), irr_adj, p)
        Rules(irr_adj, p) ==
            LET s0 == [score |-> FromInt(100), flags |-> <<>>]
                s1 == OerRule(s0, m.oer, p)
                s2 == CapRule(s1, m.cap_rate, p)
                s3 == VacRule(s2, m.vacancy)
            IN Clamped(IrrRule(s3, irr_adj, p), irr_adj, p)
    IN Rules(FAdd(irr_a, CalibGet(c, "irr_bias")), ProfileParams(sp))


(* ---------- compute_metrics ---------- *)
\* the value of a key of the deal record: None or absent, a number, or text
\* that is not a number
NoneV == [t |-> "none", v |-> Zero]
Num(x) == [t |-> "num", v |-> x]
BadText == [t |-> "str", v |-> Zero]

\* Python's truth of a value: None and zero are false, nan and text are true
Truthy(f) == f.t = "str" \/ (f.t = "num" /\ f.v # Zero)

\* f or d
OrDefault(f, d) == IF Truthy(f) THEN f ELSE Num(d)

\* float(f) and int(f) raise on the text; int raises on nan and the infinities
FloatRaises(f) == f.t = "str"
IntRaises(f) == f.t = "str" \/ ~isfinite(f.v)

\* int(x): the whole part of x, for |x| < 10^9
Trunc(x) ==
    IF x.e < 0 THEN 0
    ELSE IF x.e >= 7 THEN x.m * 10^(x.e - 7)
    ELSE Sgn(x.m) * (Abs(x.m) \div 10^(7 - x.e))

HouseTypes == {"Single Family", "Condo", "Townhouse"}

\* the keys compute_metrics converts, each with its default
MetricsReads(d) ==
    << OrDefault(d.avg_rent, Zero), OrDefault(d.other_income_mo, Zero),
       OrDefault(d.vacancy, MkF(7, -2)), OrDefault(d.taxes, Zero),
       OrDefault(d.insurance, Zero), OrDefault(d.hoa_mo, Zero),
       OrDefault(d.utilities_mo, Zero), OrDefault(d.management_pct, MkF(8, -2)),
       OrDefault(d.repairs_pct, MkF(6, -2)), OrDefault(d.capex_pct, MkF(4, -2)),
       OrDefault(d.price, Zero) >>

MetricsRaises(d) ==
    \/ IntRaises(OrDefault(d.units, One))
    \/ \E i \in 1..Len(MetricsReads(d)) : FloatRaises(MetricsReads(d)[i])

\* the vacancy with the bias subtracted
Vacancy_minus(d, c) ==
    LET vacancy == FSub(OrDefault(d.vacancy, MkF(7, -2)).v, CalibGet(c, "vacancy_bias"))
    IN FMax(Zero, FMin(MkF(25, -2), vacancy))

\* the vacancy clamped at 0.5
Vacancy_cap50(d, c) ==
    LET vacancy == FAdd(OrDefault(d.vacancy, MkF(7, -2)).v, CalibGet(c, "vacancy_bias"))
    IN FMax(Zero, FMin(MkF(5, -1), vacancy))

\* lines 687-688
Vacancy(d, c) ==
    LET vacancy == FAdd(OrDefault(d.vacancy, MkF(7, -2)).v, CalibGet(c, "vacancy_bias"))
    IN FMax(Zero, FMin(MkF(25, -2), vacancy))

\* the operating expenses without the floor at 0
OpexTotal_nofloor(m, c) ==
    LET opex0 == FAdd(FAdd(FAdd(FAdd(FAdd(FAdd(m.taxes, m.insurance), m.hoa),
                                     m.utilities), m.mgmt), m.repairs), m.capex)
    IN FMul(opex0, FAdd(One, CalibGet(c, "oer_bias")))

\* lines 699-700: the sum of the seven expenses, scaled by the bias, floored
OpexTotal(m, c) ==
    LET opex0 == FAdd(FAdd(FAdd(FAdd(FAdd(FAdd(m.taxes, m.insurance), m.hoa),
                                     m.utilities), m.mgmt), m.repairs), m.capex)
    IN FMax(Zero, FMul(opex0, FAdd(One, CalibGet(c, "oer_bias"))))

\* [exc, m]: an exception, or the metrics record
compute_metrics(d, c) ==
    LET maxi(x, y) == IF y > x THEN y ELSE x
        Rent(rent0) == IF rent0 # Zero THEN rent0
                       ELSE IF d.property_type \in HouseTypes THEN FromInt(1600)
                       ELSE FromInt(1400)
        \* the amounts read from the deal; the derived ones are filled in below
        read == [units |-> maxi(1, Trunc(OrDefault(d.units, One).v)),
                 avg_rent |-> Rent(OrDefault(d.avg_rent, Zero).v),
                 gpr |-> Zero,
                 other_income |-> FMul(OrDefault(d.other_income_mo, Zero).v, FromInt(12)),
                 vacancy |-> Vacancy(d, c),
                 egi |-> Zero,
                 taxes |-> OrDefault(d.taxes, Zero).v,
                 insurance |-> OrDefault(d.insurance, Zero).v,
                 hoa |-> FMul(OrDefault(d.hoa_mo, Zero).v, FromInt(12)),
                 utilities |-> FMul(OrDefault(d.utilities_mo, Zero).v, FromInt(12)),
                 mgmt |-> Zero, repairs |-> Zero, capex |-> Zero, opex |-> Zero,
                 oer |-> Zero, noi |-> Zero, cap_rate |-> Zero]
        Gpr(m) == [m EXCEPT !.gpr = FMul(FMul(FromInt(m.units), m.avg_rent), FromInt(12))]
        Egi(m) == [m EXCEPT !.egi = FMul(FAdd(m.gpr, m.other_income), FSub(One, m.vacancy))]
        Shares(m) ==
            [m EXCEPT !.mgmt = FMul(m.egi, OrDefault(d.management_pct, MkF(8, -2)).v),
                      !.repairs = FMul(m.egi, OrDefault(d.repairs_pct, MkF(6, -2)).v),
                      !.capex = FMul(m.egi, OrDefault(d.capex_pct, MkF(4, -2)).v)]
        Opex(m) == [m EXCEPT !.opex = OpexTotal(m, c)]
        Noi(m) == [m EXCEPT !.oer = IF FGt(m.egi, Zero) THEN FDiv(m.opex, m.egi) ELSE Zero,
                            !.noi = FSub(m.egi, m.opex)]
        Cap(m, price) ==
            [m EXCEPT !.cap_rate = IF FGt(price, Zero) THEN FDiv(m.noi, price) ELSE Zero]
    IN IF MetricsRaises(d) THEN [exc |-> TRUE, m |-> <<>>]
       ELSE [exc |-> FALSE,
             m |-> Cap(Noi(Opex(Shares(Egi(Gpr(read))))), OrDefault(d.price, Zero).v)]


(* ---------- pmt and build_cashflows ---------- *)
\* x ** n for a float x and an int n >= 0, by squaring
RECURSIVE PowPos(_, _)
PowPos(x, n) ==
    IF n = 0 THEN One
    ELSE IF n = 1 THEN x
    ELSE LET h == PowPos(x, n \div 2)
             sq == FMul(h, h)
         IN IF n % 2 = 0 THEN sq ELSE FMul(sq, x)

\* x ** n for an int n; float ** raises when the result overflows or is 1 / 0
FPow(x, n) == IF n >= 0 THEN PowPos(x, n) ELSE FDiv(One, PowPos(x, -n))
PowRaises(x, n) ==
    IF n >= 0 THEN isfinite(x) /\ IsInf(PowPos(x, n))
    ELSE PowPos(x, -n) = Zero

\* pmt(rate, nper, pv): [exc, v]
pmt(r, nper, pv) ==
    IF FEq(r, Zero) THEN Ret(FDiv(pv, FromInt(IF nper > 1 THEN nper ELSE 1)))
    ELSE IF PowRaises(FAdd(One, r), -nper) THEN Raise
    ELSE LET Over(den) == IF DivRaises(den) THEN Raise ELSE Ret(FDiv(FMul(pv, r), den))
         IN Over(FSub(One, FPow(FAdd(One, r), -nper)))

\* the locals with the price imputed at the unfloored cap rate
BuildSetup_nofloor(d, m, inp) ==
    LET price0 == OrDefault(d.price, Zero)
        cap == IF m.cap_rate # Zero THEN m.cap_rate ELSE MkF(6, -2)
        nper == inp.amort_years * 12
        Locals(price, loan0, r_m, pay) ==
            IF FloatRaises(price0) \/ pay.exc THEN [exc |-> TRUE, b |-> <<>>]
            ELSE [exc |-> FALSE,
                  b |-> [months |-> inp.hold_years * 12, price |-> price,
                         equity0 |-> FMul(FNeg(price), inp.down_payment_pct),
                         loan0 |-> loan0, r_m |-> r_m, nper |-> nper, pay |-> pay.v,
                         loan_balance |-> loan0, egi_m0 |-> FDiv(m.egi, FromInt(12)),
                         opex_m0 |-> FDiv(m.opex, FromInt(12)), month |-> 0,
                         sale_price |-> Zero, net_sale |-> Zero]]
        Loan(price, loan0, r_m) == Locals(price, loan0, r_m, pmt(r_m, nper, loan0))
        Priced(price) == Loan(price, FMul(price, FSub(One, inp.down_payment_pct)),
                              FDiv(inp.interest_rate, FromInt(12)))
    IN Priced(IF price0.v # Zero THEN price0.v ELSE FDiv(m.noi, cap))

\* lines 793-806: the locals before the monthly loop, [exc, b]
BuildSetup(d, m, inp) ==
    LET price0 == OrDefault(d.price, Zero)
        cap == IF m.cap_rate # Zero THEN m.cap_rate ELSE MkF(6, -2)
        nper == inp.amort_years * 12
        Locals(price, loan0, r_m, pay) ==
            IF FloatRaises(price0) \/ pay.exc THEN [exc |-> TRUE, b |-> <<>>]
            ELSE [exc |-> FALSE,
                  b |-> [months |-> inp.hold_years * 12, price |-> price,
                         equity0 |-> FMul(FNeg(price), inp.down_payment_pct),
                         loan0 |-> loan0, r_m |-> r_m, nper |-> nper, pay |-> pay.v,
                         loan_balance |-> loan0, egi_m0 |-> FDiv(m.egi, FromInt(12)),
                         opex_m0 |-> FDiv(m.opex, FromInt(12)), month |-> 0,
                         sale_price |-> Zero, net_sale |-> Zero]]
        Loan(price, loan0, r_m) == Locals(price, loan0, r_m, pmt(r_m, nper, loan0))
        Priced(price) == Loan(price, FMul(price, FSub(One, inp.down_payment_pct)),
                              FDiv(inp.interest_rate, FromInt(12)))
    IN Priced(IF price0.v # Zero THEN price0.v ELSE FDiv(m.noi, FMax(MkF(5, -2), cap)))

\* the monthly NOI of year y (0-based), [exc, v]
NoiMonth(bl, inp, y) ==
    IF PowRaises(FAdd(One, inp.rent_growth), y) \/ PowRaises(FAdd(One, inp.expense_growth), y)
    THEN Raise
    ELSE Ret(FSub(FMul(bl.egi_m0, FPow(FAdd(One, inp.rent_growth), y)),
                  FMul(bl.opex_m0, FPow(FAdd(One, inp.expense_growth), y))))

\* lines 809-816 for this month: the payment split and the month's cash flow
MonthStep(bl, inp, month) ==
    LET interest == FMul(bl.loan_balance, bl.r_m)
        principal == FMax(Zero, FSub(bl.pay, interest))
        loan_balance == FMax(Zero, FSub(bl.loan_balance, principal))
        Month(noi_m) ==
            [exc |-> noi_m.exc,
             b |-> [bl EXCEPT !.loan_balance = loan_balance, !.month = month],
             cf |-> FSub(noi_m.v, bl.pay)]
    IN Month(NoiMonth(bl, inp, (month - 1) \div 12))

\* the sale with the growth of hold_years full years
Sale_fullyears(bl, inp) ==
    LET Sold(exc, sale_price) ==
            LET sale_cost == FMul(sale_price, inp.sale_cost_pct)
            IN [exc |-> exc,
                b |-> [bl EXCEPT !.sale_price = sale_price,
                                 !.net_sale = FSub(FSub(sale_price, sale_cost),
                                                   bl.loan_balance)]]
        Last(noi_m) ==
            LET last_noi_annual == FMul(noi_m.v, FromInt(12))
            IN Sold(noi_m.exc, FDiv(last_noi_annual, FMax(MkF(1, -2), inp.exit_cap)))
    IN Last(NoiMonth(bl, inp, inp.hold_years))

\* lines 818-822: the sale at the end of the hold, [exc, b, net_sale]
Sale(bl, inp) ==
    LET Sold(exc, sale_price) ==
            LET sale_cost == FMul(sale_price, inp.sale_cost_pct)
            IN [exc |-> exc,
                b |-> [bl EXCEPT !.sale_price = sale_price,
                                 !.net_sale = FSub(FSub(sale_price, sale_cost),
                                                   bl.loan_balance)]]
        Last(noi_m) ==
            LET last_noi_annual == FMul(noi_m.v, FromInt(12))
            IN Sold(noi_m.exc, FDiv(last_noi_annual, FMax(MkF(1, -2), inp.exit_cap)))
    IN Last(NoiMonth(bl, inp, inp.hold_years - 1))

\* sum(cf for cf in cashflows[1:] if cf > 0), from entry i on
RECURSIVE PosSum(_, _, _)
PosSum(cfs, i, acc) ==
    IF i > Len(cfs) THEN acc
    ELSE PosSum(cfs, i + 1, IF FGt(cfs[i], Zero) THEN FAdd(acc, cfs[i]) ELSE acc)

\* the annual rate compounded with no total-loss floor
Annualize_nofloor(irr_m) ==
    IF PowRaises(FAdd(One, irr_m), 12) THEN Raise
    ELSE Ret(FSub(FPow(FAdd(One, irr_m), 12), One))

\* the annual rate with the total-loss floor taken at every rate <= 0
Annualize_floorzero(irr_m) ==
    IF FGt(irr_m, Zero)
    THEN IF PowRaises(FAdd(One, irr_m), 12) THEN Raise
         ELSE Ret(FSub(FPow(FAdd(One, irr_m), 12), One))
    ELSE Ret(FromInt(-1))

\* line 825, [exc, v]
Annualize(irr_m) ==
    IF FGt(irr_m, MkF(-999, -3))
    THEN IF PowRaises(FAdd(One, irr_m), 12) THEN Raise
         ELSE Ret(FSub(FPow(FAdd(One, irr_m), 12), One))
    ELSE Ret(FromInt(-1))

\* line 826
EquityMultiple(cfs) ==
    IF cfs[1] # Zero THEN FDiv(PosSum(cfs, 2, Zero), FAbs(cfs[1])) ELSE Zero


VARIABLES
    pc,          \* where the computation stands
    raised,      \* an exception escaped
    cashflows,   \* the cash-flow list given to _npv_safe / irr_robust
    rate,        \* the rate given to _npv_safe
    npv,         \* <<>> or the outcome of the _npv_safe call
    target,      \* the rate the cash flows were built from, nan if none
    np_irr,      \* what np.irr did when the fallback ran
    a, b, fa, fb, \* the bracket of irr_robust
    it,          \* bisection iterations done
    irr,         \* <<>> or the value irr_robust returned
    via,         \* the return statement irr_robust left by
    deal,        \* the deal record
    calib,       \* the calibration record
    metrics,     \* <<>> or the result of compute_metrics
    prev,        \* <<>> or the calibration and metrics of the call of compute_metrics before
    mi,          \* the model inputs
    build,       \* the locals of build_cashflows
    model,       \* <<>> or the result of build_cashflows
    scoring_profile, \* the workspace's scoring profile
    grade,       \* <<>> or the result of aire_grade
    obj,         \* the identity of the object each name is bound to, 0 for none
    mi2,         \* <<>> or the inputs of the last what-if of quick_sensitivity
    sens,        \* <<>> or the locals of quick_sensitivity
    session,     \* st.session_state and the position of the script run
    memo_payload, \* <<>> or the memo of the script run
    thread_memory, \* the rows of table thread_memory, by mem_key
    deals,       \* the rows of table deals, by id
    deal_versions, \* the rows of table deal_versions
    sess,        \* each browser session's place in the handler it runs
    users,       \* the rows of table users
    invitations, \* the rows of table invitations
    inv          \* each session's place in accept_invite and what it returned

npvVars == <<rate, npv>>
irrVars == <<target, np_irr, a, b, fa, fb, it, irr, via>>
dealVars == <<deal, calib, metrics, prev>>
buildVars == <<mi, build, model>>
gradeVars == <<scoring_profile, grade>>
sensVars == <<mi2, sens>>
appVars == <<session, memo_payload>>
storeVars == <<thread_memory, deals, deal_versions, sess>>
inviteVars == <<users, invitations, inv>>
extVars == <<sensVars, appVars, storeVars, inviteVars>>

vars == <<pc, raised, cashflows, npvVars, irrVars, dealVars, buildVars, gradeVars,
          obj, extVars>>

\* the names that hold objects
ObjNames == {"deal", "calib", "mi", "metrics", "cashflows", "model", "grade", "mi2", "sens"}

\* the objects the caller passes in, each its own
Heap(given) ==
    [n \in ObjNames \cup {"next"} |->
        IF n = "next" THEN Len(given) + 1
        ELSE IF \E i \in 1..Len(given) : given[i] = n
        THEN CHOOSE i \in 1..Len(given) : given[i] = n
        ELSE 0]

\* a new object bound to name n
Alloc(h, n) == [h EXCEPT ![n] = h["next"], !["next"] = h["next"] + 1]

NoNp == [raises |-> FALSE, v |-> NaN]

\* irr_robust, from its entry to the choice of the bracket
IrrScan ==
    /\ pc = "irr_scan"
    /\ \E vals \in {GridVals(cashflows)} : \E s \in {Scan(vals, 1)} :
          \/ /\ s.kind = "ret"
             /\ irr' = <<s.v>>
             /\ via' = "scan"
             /\ pc' = "irr_done"
             /\ UNCHANGED <<np_irr, a, b, fa, fb>>
          \/ /\ s.kind = "none"
             /\ \E np \in NpOutcomes :
                   /\ np_irr' = np
                   /\ irr' = <<IrrFallback(np)>>
             /\ via' = "fallback"
             /\ pc' = "irr_done"
             /\ UNCHANGED <<a, b, fa, fb>>
          \/ /\ s.kind = "bracket"
             /\ a' = grid[s.i]
             /\ b' = grid[s.i + 1]
             /\ fa' = vals[s.i]
             /\ fb' = vals[s.i + 1]
             /\ pc' = "irr_bisect"
             /\ UNCHANGED <<np_irr, irr, via>>
    /\ UNCHANGED <<raised, cashflows, npvVars, target, it, dealVars, buildVars, gradeVars>>
    /\ UNCHANGED <<obj, extVars>>

\* the iteration that replaces the endpoint of the opposite sign
BisectStep_swapped ==
    /\ pc = "irr_bisect"
    /\ it < BisectIters
    /\ \E s \in {Midpoint(a, b, cashflows)} :
          IF s.exc
          THEN /\ raised' = TRUE
               /\ pc' = "irr_done"
               /\ UNCHANGED <<a, b, fa, fb, it, irr, via>>
          ELSE IF Converged(s.fm)
          THEN /\ irr' = <<s.mid>>
               /\ via' = "bisect"
               /\ pc' = "irr_done"
               /\ UNCHANGED <<a, b, fa, fb, it, raised>>
          ELSE /\ IF ~OppositeSigns(fa, s.fm)
                  THEN b' = s.mid /\ fb' = s.fm /\ UNCHANGED <<a, fa>>
                  ELSE a' = s.mid /\ fa' = s.fm /\ UNCHANGED <<b, fb>>
               /\ it' = it + 1
               /\ UNCHANGED <<pc, irr, via, raised>>
    /\ UNCHANGED <<cashflows, npvVars, target, np_irr, dealVars, buildVars, gradeVars>>
    /\ UNCHANGED <<obj, extVars>>

\* one iteration of the bisection loop
BisectStep ==
    /\ pc = "irr_bisect"
    /\ it < BisectIters
    /\ \E s \in {Midpoint(a, b, cashflows)} :
          IF s.exc
          THEN /\ raised' = TRUE
               /\ pc' = "irr_done"
               /\ UNCHANGED <<a, b, fa, fb, it, irr, via>>
          ELSE IF Converged(s.fm)
          THEN /\ irr' = <<s.mid>>
               /\ via' = "bisect"
               /\ pc' = "irr_done"
               /\ UNCHANGED <<a, b, fa, fb, it, raised>>
          ELSE /\ IF OppositeSigns(fa, s.fm)
                  THEN b' = s.mid /\ fb' = s.fm /\ UNCHANGED <<a, fa>>
                  ELSE a' = s.mid /\ fa' = s.fm /\ UNCHANGED <<b, fb>>
               /\ it' = it + 1
               /\ UNCHANGED <<pc, irr, via, raised>>
    /\ UNCHANGED <<cashflows, npvVars, target, np_irr, dealVars, buildVars, gradeVars>>
    /\ UNCHANGED <<obj, extVars>>

\* the loop ran out: the final midpoint
BisectExit ==
    /\ pc = "irr_bisect"
    /\ it = BisectIters
    /\ irr' = <<FDiv(FAdd(a, b), Two)>>
    /\ via' = "exit"
    /\ pc' = "irr_done"
    /\ UNCHANGED <<raised, cashflows, npvVars, target, np_irr, a, b, fa, fb, it,
                   dealVars, buildVars, gradeVars>>
    /\ UNCHANGED <<obj, extVars>>

\* a call of _npv_safe
NpvCall ==
    /\ pc = "npv"
    /\ \E r \in {npv_safe(rate, cashflows)} :
          /\ npv' = <<r.v>>
          /\ raised' = r.exc
    /\ pc' = "npv_done"
    /\ UNCHANGED <<cashflows, rate, irrVars, dealVars, buildVars, gradeVars>>
    /\ UNCHANGED <<obj, extVars>>

\* the variables a specification does not use
IdleNpv == rate = Zero /\ npv = <<>>
IdleIrr ==
    /\ target = NaN /\ np_irr = NoNp
    /\ a = Zero /\ b = Zero /\ fa = Zero /\ fb = Zero
    /\ it = 0 /\ irr = <<>> /\ via = "none"
IdleDeal == deal = <<>> /\ calib = <<>> /\ metrics = <<>> /\ prev = <<>>
IdleBuild == mi = <<>> /\ build = <<>> /\ model = <<>>
IdleGrade == scoring_profile = <<>> /\ grade = <<>>
IdleSens == mi2 = <<>> /\ sens = <<>>
IdleApp == session = <<>> /\ memo_payload = <<>>
IdleStore == thread_memory = <<>> /\ deals = <<>> /\ deal_versions = {} /\ sess = <<>>
IdleInvite == users = {} /\ invitations = {} /\ inv = <<>>
IdleExt == IdleSens /\ IdleApp /\ IdleStore /\ IdleInvite


(* ---------- the inputs of the solver specifications ---------- *)
MaxLen == 3
MaxK == 2
LongLen == 400
NpvLongLen == 60

CfVals == {FromInt(-1000), FromInt(-30), Zero, MkF(27549, -2), FromInt(600)}

\* every list of at most MaxLen cash flows
GenSeqs == UNION {[1..n -> CfVals] : n \in 0..MaxLen}

\* the spec's example: a 4-period annuity of 275.49 bought for 1000
ExampleSeq == <<FromInt(-1000), MkF(27549, -2), MkF(27549, -2), MkF(27549, -2), MkF(27549, -2)>>

\* an outflow and then level inflows, long enough for both clamps at grid rates
LongAnnuity == [i \in 1..(LongLen + 1) |-> IF i = 1 THEN FromInt(-1000) ELSE FromInt(10)]
LongInflows == [i \in 1..(LongLen + 1) |-> FromInt(10)]

\* rates 1 + r = p / q, as <<p, q>>
RtRates == {<<1, 10>>, <<1, 2>>, <<26, 25>>, <<11, 10>>, <<5, 4>>, <<2, 1>>, <<5, 1>>}
RtScales == {0, -9}
RtRate(pq) == FDiv(FromInt(pq[1] - pq[2]), FromInt(pq[2]))

\* one outflow at t = 0, then inflows k1 p and k2 p^2 (in units of 10^s), the
\* outflow k1 q + k2 q^2 making the NPV at r exactly zero
RtSeq(pq, k1, k2, s) ==
    LET p == pq[1]
        q == pq[2]
    IN IF k2 = 0
       THEN <<MkF(-(k1 * q), s), MkF(k1 * p, s)>>
       ELSE <<MkF(-(k1 * q + k2 * q * q), s), MkF(k1 * p, s), MkF(k2 * p * p, s)>>

\* an outflow of 1 and one inflow of 0.1^300 after 300 periods: r = -0.9
RtLong == [i \in 1..301 |-> IF i = 1 THEN FromInt(-1) ELSE IF i = 301 THEN MkF(1, -300) ELSE Zero]

RtInputs ==
    {[cf |-> RtSeq(pq, k1, k2, s), r |-> RtRate(pq)] :
        pq \in RtRates, k1 \in 1..MaxK, k2 \in 0..MaxK, s \in RtScales}
    \cup {[cf |-> RtLong, r |-> MkF(-9, -1)]}

\* NPV changes sign at 3% and again at 30% per period
TwoRoots == <<FromInt(-1000), FromInt(2330), FromInt(-1339)>>

\* NPV is exactly 0 at the grid rate 0.0
BreakEven == <<FromInt(-1000), FromInt(1000)>>

\* NPV is +inf at the grid rate -0.95 and negative at every other one
SkippedPair ==
    [i \in 1..235 |-> IF i = 1 THEN FromInt(-1) ELSE IF i = 235 THEN MkF(1, -300) ELSE Zero]

IrrInputs ==
    {[cf |-> c, r |-> NaN] : c \in GenSeqs \cup {ExampleSeq, LongAnnuity, LongInflows,
                                                TwoRoots, BreakEven, SkippedPair}}
    \cup RtInputs

InitIrr ==
    /\ pc = "irr_scan"
    /\ raised = FALSE
    /\ \E x \in IrrInputs : cashflows = x.cf /\ target = x.r
    /\ np_irr = NoNp
    /\ a = Zero /\ b = Zero /\ fa = Zero /\ fb = Zero
    /\ it = 0 /\ irr = <<>> /\ via = "none"
    /\ IdleNpv /\ IdleDeal /\ IdleBuild /\ IdleGrade
    /\ obj = Heap(<<"cashflows">>)
    /\ IdleExt

NextIrr == IrrScan \/ BisectStep \/ BisectExit

SpecIrr == InitIrr /\ [][NextIrr]_vars

NpvRates == { FromInt(-2), FromInt(-1), MkF(-9999995, -7), MkF(-999999, -6),
              MkF(-9999989, -7), MkF(-999998, -6), MkF(-95, -2), MkF(-9, -1),
              MkF(-5, -1), Zero, MkF(4, -2), FromInt(5), MkF(1, 100), MkF(1, 300) }

NpvVals == {FromInt(-100), Zero, FromInt(250)}

NpvInputs ==
    UNION {[1..n -> NpvVals] : n \in 0..MaxLen}
    \cup { <<Zero, MkF(3, 307), MkF(-3, 307), Zero>>, <<MkF(3, 307), MkF(3, 307)>>,
           [i \in 1..NpvLongLen |-> One], [i \in 1..NpvLongLen |-> FromInt(-1)],
           [i \in 1..NpvLongLen |-> Zero] }

InitNpv ==
    /\ pc = "npv"
    /\ raised = FALSE
    /\ cashflows \in NpvInputs
    /\ rate \in NpvRates
    /\ npv = <<>>
    /\ IdleIrr /\ IdleDeal /\ IdleBuild /\ IdleGrade
    /\ obj = Heap(<<"cashflows">>)
    /\ IdleExt

NextNpv == NpvCall

SpecNpv == InitNpv /\ [][NextNpv]_vars


(* ---------- the solver's claims ---------- *)
RateTol == MkF(1, -4)
Near(x, y) == isfinite(x) /\ FLe(FAbs(FSub(x, y)), RateTol)
HasPos(cfs) == \E i \in 1..Len(cfs) : FGt(cfs[i], Zero)
HasNeg(cfs) == \E i \in 1..Len(cfs) : FLt(cfs[i], Zero)
AllPos(cfs) == Len(cfs) > 0 /\ \A i \in 1..Len(cfs) : FGt(cfs[i], Zero)
AllNeg(cfs) == Len(cfs) > 0 /\ \A i \in 1..Len(cfs) : FLt(cfs[i], Zero)

\* C1 (as amended): irr_robust never raises and never returns nan; what it
\* returns from the grid scan, the bisection or the 0.0 sentinel is finite, and
\* only a value handed back by np.irr, which is tested for nan alone, may be
\* infinite.
C1_TotalFiniteOwn ==
    pc = "irr_done" =>
        /\ ~raised
        /\ irr # <<>>
        /\ ~IsNaN(irr[1])
        /\ (via # "fallback" \/ np_irr.raises \/ IsNaN(np_irr.v)) => isfinite(irr[1])

\* a long sequence, discounting clamped at the grid's ends, solved by bisection
C1_Witness ==
    /\ pc = "irr_done"
    /\ cashflows = LongAnnuity
    /\ it > 0
    /\ isfinite(irr[1])

\* C1 as stated: the result is always finite
C1_AlwaysFinite == pc = "irr_done" => ~raised /\ irr # <<>> /\ isfinite(irr[1])

\* C2 (as amended): _npv_safe never raises; it returns +infinity for every
\* rate <= -0.999999, and otherwise a float that is finite, infinite or, only
\* for cash flows of both signs, nan.
C2_TotalNpv ==
    pc = "npv_done" =>
        /\ ~raised
        /\ npv # <<>>
        /\ FLe(rate, RateFloor) => npv[1] = PInf
        /\ IsNaN(npv[1]) => HasPos(cashflows) /\ HasNeg(cashflows)

\* the guard's boundary rate with cash flows whose sum is finite
C2_Witness ==
    /\ pc = "npv_done"
    /\ rate = RateFloor
    /\ HasNeg(cashflows)
    /\ npv = <<PInf>>

\* C2 as stated: the value is finite or infinite, never nan
C2_FiniteOrInf ==
    pc = "npv_done" =>
        /\ ~raised
        /\ npv # <<>>
        /\ ~IsNaN(npv[1])
        /\ FLe(rate, RateFloor) => npv[1] = PInf

\* C3: for a sequence of entries all strictly positive or all strictly
\* negative, when np.irr is missing, raises or yields nan, irr_robust returns
\* exactly 0.0 and does not raise.
C3_NoBracketSentinel ==
    (/\ pc = "irr_done"
     /\ AllPos(cashflows) \/ AllNeg(cashflows)
     /\ np_irr.raises \/ IsNaN(np_irr.v))
    => ~raised /\ irr = <<Zero>> /\ via = "fallback"

\* all-negative entries, np.irr raising
C3_Witness ==
    /\ pc = "irr_done"
    /\ AllNeg(cashflows)
    /\ Len(cashflows) = MaxLen
    /\ np_irr.raises
    /\ irr = <<Zero>>

\* the NPV is finite at the grid rates that enclose r
EnclosingFinite(r, cfs) ==
    LET vals == GridVals(cfs)
    IN \A i \in 1..(Len(grid) - 1) :
          (FLe(grid[i], r) /\ FLe(r, grid[i + 1])) => isfinite(vals[i]) /\ isfinite(vals[i + 1])

\* the NPV is at least 1e-6 in size at rate x
Resolved(x, cfs) ==
    LET f == npv_safe(x, cfs) IN ~f.exc /\ isfinite(f.v) /\ FGe(FAbs(f.v), NpvTol)

\* one negative outflow, then inflows, built from rate target
RtShape ==
    /\ ~IsNaN(target)
    /\ Len(cashflows) >= 2
    /\ FLt(cashflows[1], Zero)
    /\ \A i \in 2..Len(cashflows) : FGe(cashflows[i], Zero)

\* C4 (as amended): for a sequence of one outflow and then inflows whose NPV
\* is zero at r, irr_robust returns a rate within 1e-4 of r provided the NPV is
\* finite at the grid rates enclosing r and at least 1e-6 in size at r - 1e-4
\* and at r + 1e-4.
C4_RoundTrip ==
    (/\ pc = "irr_done"
     /\ RtShape
     /\ EnclosingFinite(target, cashflows)
     /\ Resolved(FSub(target, RateTol), cashflows)
     /\ Resolved(FAdd(target, RateTol), cashflows))
    => ~raised /\ Near(irr[1], target)

\* a rate off the grid recovered by bisection
C4_Witness ==
    /\ pc = "irr_done"
    /\ RtShape
    /\ Resolved(FSub(target, RateTol), cashflows)
    /\ Resolved(FAdd(target, RateTol), cashflows)
    /\ via = "bisect"
    /\ it > 0
    /\ Near(irr[1], target)

\* C4 as stated: every such sequence gives its rate back
C4_RoundTripAll == (pc = "irr_done" /\ RtShape) => ~raised /\ Near(irr[1], target)

\* C5 (as amended): for [-1000, 275.49, 275.49, 275.49, 275.49] irr_robust
\* returns a rate within 1e-4 of 0.04.
C5_ExampleRate ==
    (pc = "irr_done" /\ cashflows = ExampleSeq) => ~raised /\ Near(irr[1], MkF(4, -2))

C5_Witness ==
    /\ pc = "irr_done"
    /\ cashflows = ExampleSeq
    /\ it > 0
    /\ FGt(irr[1], MkF(39, -3))
    /\ FLt(irr[1], MkF(41, -3))

\* C5 as stated: within 1e-4 of 0.10
C5_ExampleTenPercent ==
    (pc = "irr_done" /\ cashflows = ExampleSeq) => ~raised /\ Near(irr[1], MkF(1, -1))


(* ---------- grading ---------- *)
\* aire_grade called on the metrics and the model's annual IRR
Grade ==
    /\ pc = "grade"
    /\ grade' = <<aire_grade(metrics[1], model[1].irr_annual, calib, scoring_profile)>>
    /\ pc' = "graded"
    /\ UNCHANGED <<raised, cashflows, npvVars, irrVars, dealVars, buildVars, scoring_profile>>
    /\ obj' = Alloc(obj, "grade")
    /\ UNCHANGED extVars

\* upper-casing the letters a..z, for the inputs
UpperChar(c) == IF c >= 97 /\ c <= 122 THEN c - 32 ELSE c
UpperStr(s) == [i \in 1..Len(s) |-> UpperChar(s[i])]
Capitalized(s) == [i \in 1..Len(s) |-> IF i = 1 THEN UpperChar(s[i]) ELSE s[i]]

Str_Value_Add == <<86, 97, 108, 117, 101, 45, 65, 100, 100>>
Str_value_space_add == <<118, 97, 108, 117, 101, 32, 97, 100, 100>>
Str_income == <<105, 110, 99, 111, 109, 101>>

GradeProfiles ==
    {NoneStr, Text(<<>>), Text(Str_Core), Text(lower(Str_Core)),
     Text(Str_value_add), Text(Str_Value_Add), Text(UpperStr(Str_value_add)),
     Text(Str_growth), Text(Capitalized(Str_growth)),
     Text(Str_value_space_add), Text(Str_income), Text(Append(Str_growth, 32))}

\* values on, between and beyond the thresholds of the rules
GradeOer == {MkF(2, -1), MkF(25, -2), MkF(45, -2), MkF(55, -2), MkF(6, -1)}
GradeCap == {Zero, MkF(3, -2), MkF(45, -3), MkF(9, -2), MkF(12, -2)}
GradeVac == {MkF(3, -2), MkF(4, -2), MkF(12, -2), MkF(2, -1)}
GradeIrr == {MkF(6, -2), MkF(8, -2), MkF(18, -2), MkF(3, -1), NaN}
GradeBias == {<<>>, <<MkF(3, -2)>>, <<MkF(-3, -2)>>}

InitGrade ==
    /\ pc = "grade"
    /\ raised = FALSE
    /\ cashflows = <<>>
    /\ IdleNpv /\ IdleIrr
    /\ deal = <<>> /\ prev = <<>>
    /\ \E o \in GradeOer, c \in GradeCap, v \in GradeVac :
          metrics = <<[oer |-> o, cap_rate |-> c, vacancy |-> v]>>
    /\ \E bias \in GradeBias :
          calib = [vacancy_bias |-> <<Zero>>, oer_bias |-> <<Zero>>, irr_bias |-> bias]
    /\ mi = <<>> /\ build = <<>>
    /\ \E x \in GradeIrr : model = <<[irr_annual |-> x]>>
    /\ scoring_profile \in GradeProfiles
    /\ grade = <<>>
    /\ obj = Heap(<<"metrics", "calib", "model">>)
    /\ IdleExt

NextGrade == Grade

SpecGrade == InitGrade /\ [][NextGrade]_vars


(* ---------- the grade's claims ---------- *)
Hundred == FromInt(100)

\* C6: the score lies in [0, 100] and the letter is the one the thresholds
\* 90, 80, 70, 60 give for that score.
C6_ScoreClampedLetterAgrees ==
    pc = "graded" =>
        LET g == grade[1]
        IN /\ FGe(g.score, Zero)
           /\ FLe(g.score, Hundred)
           /\ g.letter \in {"A", "B", "C", "D", "F"}
           /\ g.letter = "A" <=> FGe(g.score, FromInt(90))
           /\ g.letter = "B" <=> (FGe(g.score, FromInt(80)) /\ FLt(g.score, FromInt(90)))
           /\ g.letter = "C" <=> (FGe(g.score, FromInt(70)) /\ FLt(g.score, FromInt(80)))
           /\ g.letter = "D" <=> (FGe(g.score, FromInt(60)) /\ FLt(g.score, FromInt(70)))
           /\ g.letter = "F" <=> FLt(g.score, FromInt(60))

\* bonuses took the score above 100 and the clamp brought it back
C6_Witness ==
    /\ pc = "graded"
    /\ FGt(grade[1].raw, Hundred)
    /\ grade[1].score = Hundred
    /\ grade[1].letter = "A"

\* the rule table of the claim: the delta and the flags of each group
OerDelta(oer, p) ==
    IF FGt(oer, MkF(55, -2)) THEN [d |-> -(p.oer_high_pen), f |-> <<FlagOerHigh>>]
    ELSE IF FGt(oer, MkF(45, -2)) THEN [d |-> -10, f |-> <<FlagOerElevated>>]
    ELSE IF FLt(oer, MkF(25, -2)) THEN [d |-> -6, f |-> <<FlagOerLow>>]
    ELSE [d |-> 0, f |-> <<>>]
CapDelta(cap, p) ==
    IF FLe(cap, Zero) THEN [d |-> -18, f |-> <<FlagCapNone>>]
    ELSE IF FLt(cap, MkF(45, -3)) THEN [d |-> -(p.cap_low_pen), f |-> <<FlagCapLow>>]
    ELSE IF FGt(cap, MkF(9, -2)) THEN [d |-> 4, f |-> <<FlagCapHigh>>]
    ELSE [d |-> 0, f |-> <<>>]
VacDelta(vac) ==
    IF FGt(vac, MkF(12, -2)) THEN [d |-> -10, f |-> <<FlagVacHigh>>]
    ELSE IF FLt(vac, MkF(4, -2)) THEN [d |-> -4, f |-> <<FlagVacLow>>]
    ELSE [d |-> 0, f |-> <<>>]
IrrDelta(x, p) ==
    IF FLt(x, MkF(8, -2)) THEN [d |-> -8, f |-> <<FlagIrrLow>>]
    ELSE IF FGt(x, MkF(18, -2)) THEN [d |-> p.irr_bonus_high, f |-> <<FlagIrrHigh>>]
    ELSE [d |-> 0, f |-> <<>>]

\* the four groups applied in the order given
Orders == {o \in [1..4 -> 1..4] : \A i, j \in 1..4 : i # j => o[i] # o[j]}
ApplyGroup(k, st, m, irr_adj, p) ==
    IF k = 1 THEN OerRule(st, m.oer, p)
    ELSE IF k = 2 THEN CapRule(st, m.cap_rate, p)
    ELSE IF k = 3 THEN VacRule(st, m.vacancy)
    ELSE IrrRule(st, irr_adj, p)
ScoreInOrder(o, m, irr_adj, p) ==
    LET s0 == [score |-> Hundred, flags |-> <<>>]
        s1 == ApplyGroup(o[1], s0, m, irr_adj, p)
        s2 == ApplyGroup(o[2], s1, m, irr_adj, p)
        s3 == ApplyGroup(o[3], s2, m, irr_adj, p)
    IN ApplyGroup(o[4], s3, m, irr_adj, p).score

\* C7: the score before clamping is 100 plus the delta of at most one rule of
\* each group (expense ratio, cap rate, vacancy, adjusted IRR), every fired
\* rule appends its one flag, the flags stand in group order, and the groups
\* applied in any other order give the same score.
C7_RuleTable ==
    pc = "graded" =>
        LET g == grade[1]
            m == metrics[1]
            x == FAdd(model[1].irr_annual, CalibGet(calib, "irr_bias"))
            o == OerDelta(m.oer, g.pens)
            c == CapDelta(m.cap_rate, g.pens)
            v == VacDelta(m.vacancy)
            r == IrrDelta(x, g.pens)
        IN /\ g.irr_adj = x
           /\ g.raw = FromInt(100 + o.d + c.d + v.d + r.d)
           /\ g.flags = o.f \o c.f \o v.f \o r.f
           /\ \A ord \in Orders : ScoreInOrder(ord, m, x, g.pens) = g.raw

\* a rule of every group fired
C7_Witness ==
    /\ pc = "graded"
    /\ Len(grade[1].flags) = 4
    /\ grade[1].flags[1] = FlagOerHigh
    /\ grade[1].flags[4] = FlagIrrHigh

\* s is the lower-case word w in some letter case
SameWord(s, w) ==
    /\ Len(s) = Len(w)
    /\ \A i \in 1..Len(w) : s[i] = w[i] \/ (w[i] >= 97 /\ w[i] <= 122 /\ s[i] = w[i] - 32)

\* C8: the amounts are (14, 10, 6) for 'value-add' and (12, 8, 8) for 'growth'
\* in any letter case, and (18, 12, 4) for every other name, None and ''.
C8_ProfileTriple ==
    pc = "graded" =>
        LET p == grade[1].pens
            t == <<p.oer_high_pen, p.cap_low_pen, p.irr_bonus_high>>
            sp == scoring_profile
        IN IF sp.t = "str" /\ SameWord(sp.s, Str_value_add) THEN t = <<14, 10, 6>>
           ELSE IF sp.t = "str" /\ SameWord(sp.s, Str_growth) THEN t = <<12, 8, 8>>
           ELSE t = <<18, 12, 4>>

\* a mixed-case name took its own triple
C8_Witness ==
    /\ pc = "graded"
    /\ scoring_profile = Text(Str_Value_Add)
    /\ grade[1].pens.oer_high_pen = 14


(* ---------- metrics and calibration ---------- *)
MaxRecal == 1

\* m = compute_metrics(draft_deal, calib)
ComputeMetrics ==
    /\ pc = "metrics"
    /\ \E r \in {compute_metrics(deal, calib)} :
          IF r.exc
          THEN raised' = TRUE /\ UNCHANGED <<metrics, obj>>
          ELSE metrics' = <<r.m>> /\ obj' = Alloc(obj, "metrics") /\ UNCHANGED raised
    /\ pc' = "metrics_done"
    /\ UNCHANGED <<cashflows, npvVars, irrVars, deal, calib, prev, buildVars, gradeVars>>
    /\ UNCHANGED extVars

VacancyBiases == {MkF(-1, -1), Zero, MkF(5, -2), MkF(2, -1), MkF(3, -1)}

\* how often the calibration argument was changed
RecalCount == IF prev = <<>> THEN 0 ELSE prev[1].n

\* compute_metrics is to be called again on the same deal with a calibration
\* that differs in vacancy_bias alone; prev keeps the calibration and the
\* metrics of the call before
SecondCalibration ==
    /\ pc = "metrics_done"
    /\ ~raised
    /\ RecalCount < MaxRecal
    /\ \E vb \in VacancyBiases :
          /\ calib.vacancy_bias # <<vb>>
          /\ calib' = [calib EXCEPT !.vacancy_bias = <<vb>>]
    /\ prev' = <<[calib |-> calib, metrics |-> metrics[1],
                  n |-> RecalCount + 1]>>
    /\ pc' = "metrics"
    /\ UNCHANGED <<raised, cashflows, npvVars, irrVars, deal, metrics, buildVars, gradeVars>>
    /\ obj' = Alloc(obj, "calib")
    /\ UNCHANGED extVars

\* the deal of the end-to-end scenario
ScenarioDeal ==
    [units |-> Num(FromInt(10)), avg_rent |-> Num(FromInt(1200)),
     property_type |-> "Multifamily", other_income_mo |-> NoneV,
     vacancy |-> Num(MkF(7, -2)), taxes |-> Num(FromInt(18000)),
     insurance |-> Num(FromInt(6000)), hoa_mo |-> NoneV, utilities_mo |-> NoneV,
     management_pct |-> Num(MkF(8, -2)), repairs_pct |-> Num(MkF(6, -2)),
     capex_pct |-> Num(MkF(4, -2)), price |-> Num(MkF(15, 5))]

ZeroCalib == [vacancy_bias |-> <<Zero>>, oer_bias |-> <<Zero>>, irr_bias |-> <<Zero>>]

MetricsDeals ==
    { [ScenarioDeal EXCEPT !.vacancy = v, !.other_income_mo = oi, !.price = p,
                           !.management_pct = sh[1], !.repairs_pct = sh[2],
                           !.capex_pct = sh[3]] :
        v \in {NoneV, Num(MkF(7, -2)), Num(MkF(2, -1))},
        oi \in {NoneV, Num(FromInt(-20000))},
        p \in {Num(MkF(15, 5)), Num(Zero)},
        sh \in { <<NoneV, NoneV, NoneV>>,
                 <<Num(MkF(5, -1)), Num(MkF(4, -1)), Num(MkF(3, -1))>> } }
    \cup { [ScenarioDeal EXCEPT !.units = NoneV, !.avg_rent = Num(Zero),
                                !.property_type = "Condo"],
           [ScenarioDeal EXCEPT !.units = Num(MkF(-35, -1))],
           [ScenarioDeal EXCEPT !.taxes = BadText],
           [ScenarioDeal EXCEPT !.vacancy = Num(Zero)],
           [ScenarioDeal EXCEPT !.vacancy = Num(MkF(-3, -1))],
           [ScenarioDeal EXCEPT !.vacancy = Num(NaN)],
           [ScenarioDeal EXCEPT !.vacancy = Num(PInf)],
           [ScenarioDeal EXCEPT !.taxes = Num(FromInt(200000)), !.price = NoneV],
           [k \in DOMAIN ScenarioDeal |->
               IF k = "property_type" THEN "Townhouse" ELSE NoneV] }

InitMetrics ==
    /\ pc = "metrics"
    /\ raised = FALSE
    /\ cashflows = <<>>
    /\ IdleNpv /\ IdleIrr /\ IdleBuild /\ IdleGrade
    /\ deal \in MetricsDeals
    /\ \E vb \in VacancyBiases, ob \in {<<>>, <<MkF(1, -1)>>} :
          calib = [vacancy_bias |-> <<vb>>, oer_bias |-> ob, irr_bias |-> <<Zero>>]
    /\ metrics = <<>>
    /\ prev = <<>>
    /\ obj = Heap(<<"deal", "calib">>)
    /\ IdleExt

NextMetrics == ComputeMetrics \/ SecondCalibration

SpecMetrics == InitMetrics /\ [][NextMetrics]_vars


(* ---------- the metrics' claims ---------- *)
\* the metrics under the smaller (lo) and the larger (hi) of the two biases
BiasPair ==
    LET before == prev[1]
        up == FLt(CalibGet(before.calib, "vacancy_bias"), CalibGet(calib, "vacancy_bias"))
    IN [lo |-> IF up THEN before.metrics ELSE metrics[1],
        hi |-> IF up THEN metrics[1] ELSE before.metrics]

Recomputed == pc = "metrics_done" /\ ~raised /\ prev # <<>>

\* gpr + other_income
GrossIncome(m) == FAdd(m.gpr, m.other_income)

\* (management_pct + repairs_pct + capex_pct) * (1 + oer_bias)
BiasedShare ==
    FMul(FAdd(FAdd(OrDefault(deal.management_pct, MkF(8, -2)).v,
                   OrDefault(deal.repairs_pct, MkF(6, -2)).v),
              OrDefault(deal.capex_pct, MkF(4, -2)).v),
         FAdd(One, CalibGet(calib, "oer_bias")))

\* C10 (as amended): of two calibrations that differ only in vacancy_bias, the
\* one with the larger bias yields, when gpr + other_income >= 0, an egi that
\* is not larger, and strictly smaller exactly when the two clamped vacancies
\* differ and gpr + other_income > 0; and a cap_rate that is not larger when
\* also (management_pct + repairs_pct + capex_pct) * (1 + oer_bias) <= 1.
C10_VacancyBiasMonotone ==
    Recomputed =>
        LET lo == BiasPair.lo
            hi == BiasPair.hi
        IN FGe(GrossIncome(lo), Zero) =>
              /\ FLe(hi.egi, lo.egi)
              /\ FLt(hi.egi, lo.egi) <=> (hi.vacancy # lo.vacancy /\ FGt(GrossIncome(lo), Zero))
              /\ FLe(BiasedShare, One) => FLe(hi.cap_rate, lo.cap_rate)

\* two biases inside the clamp range: egi and cap_rate both fell
C10_Witness ==
    /\ Recomputed
    /\ FLt(BiasPair.hi.egi, BiasPair.lo.egi)
    /\ FLt(BiasPair.hi.cap_rate, BiasPair.lo.cap_rate)
    /\ FLt(BiasPair.hi.vacancy, MkF(25, -2))

\* C10 as stated: egi strictly smaller and cap_rate not larger, always
C10_StrictAlways ==
    Recomputed =>
        /\ FLt(BiasPair.hi.egi, BiasPair.lo.egi)
        /\ FLe(BiasPair.hi.cap_rate, BiasPair.lo.cap_rate)


MetricsKeys ==
    {"units", "avg_rent", "gpr", "other_income", "vacancy", "egi", "taxes", "insurance",
     "hoa", "utilities", "mgmt", "repairs", "capex", "opex", "oer", "noi", "cap_rate"}

\* C11: compute_metrics never raises and returns a complete metrics record
\* for every deal, text that is not a number included; a field that is absent
\* is read as its default (units 1, rent 1600 for a house type, vacancy 0.07
\* before the bias, no taxes).
C11_NeverRaisesDefaults ==
    pc = "metrics_done" =>
        /\ ~raised
        /\ metrics # <<>>
        /\ DOMAIN metrics[1] = MetricsKeys
        /\ deal.units = NoneV => metrics[1].units = 1
        /\ (deal.avg_rent = NoneV /\ deal.property_type \in HouseTypes)
              => metrics[1].avg_rent = FromInt(1600)
        /\ deal.taxes = NoneV => metrics[1].taxes = Zero

\* the vacancy before the bias: the deal's, or 0.07 when the deal gives none
\* or gives zero
VacancyRead == IF Truthy(deal.vacancy) THEN deal.vacancy.v ELSE MkF(7, -2)

\* the clamp, the range and the egi of C12 for a vacancy s before the clamp
ClampedAt(s) ==
    LET m == metrics[1]
    IN /\ FGe(m.vacancy, Zero)
       /\ FLe(m.vacancy, MkF(25, -2))
       /\ (FGe(s, Zero) /\ FLe(s, MkF(25, -2))) => m.vacancy = s
       /\ FLt(s, Zero) => m.vacancy = Zero
       /\ FGt(s, MkF(25, -2)) => m.vacancy = MkF(25, -2)
       /\ m.egi = FMul(FAdd(m.gpr, m.other_income), FSub(One, m.vacancy))

\* C12 (as amended): the vacancy is clamp(v + vacancy_bias, 0, 0.25), v being
\* the deal's vacancy when it is not zero and 0.07 when the deal gives none
\* or gives 0; it lies in [0, 0.25] and egi = (gpr + other_income) * (1 - vacancy).
C12_VacancyClamp ==
    (pc = "metrics_done" /\ ~raised) =>
        ClampedAt(FAdd(VacancyRead, CalibGet(calib, "vacancy_bias")))

\* a deal whose vacancy is 0, no bias: 0.07 is reported
C12_Witness ==
    /\ pc = "metrics_done"
    /\ ~raised
    /\ deal.vacancy = Num(Zero)
    /\ CalibGet(calib, "vacancy_bias") = Zero
    /\ metrics[1].vacancy = MkF(7, -2)

\* C12 as stated: 0.07 only when the deal gives no vacancy
C12_SuppliedAlwaysUsed ==
    (pc = "metrics_done" /\ ~raised) =>
        ClampedAt(FAdd(IF deal.vacancy.t = "num" THEN deal.vacancy.v ELSE MkF(7, -2),
                       CalibGet(calib, "vacancy_bias")))


\* twelve times a monthly amount of the deal, absent read as 0
Yearly(f) == FMul(OrDefault(f, Zero).v, FromInt(12))

\* egi times a share of the deal, the share read with its default
EgiShare(f, dflt) == FMul(metrics[1].egi, OrDefault(f, dflt).v)

\* (taxes + insurance + 12 hoa_mo + 12 utilities_mo + the three shares of
\* egi) * (1 + oer_bias), from the deal and the reported egi
ScaledExpenses ==
    FMul(FAdd(FAdd(FAdd(FAdd(FAdd(FAdd(OrDefault(deal.taxes, Zero).v,
                                       OrDefault(deal.insurance, Zero).v),
                                  Yearly(deal.hoa_mo)),
                             Yearly(deal.utilities_mo)),
                        EgiShare(deal.management_pct, MkF(8, -2))),
                   EgiShare(deal.repairs_pct, MkF(6, -2))),
              EgiShare(deal.capex_pct, MkF(4, -2))),
         FAdd(One, CalibGet(calib, "oer_bias")))

\* C13: opex is the seven expenses summed and scaled by 1 + oer_bias as a
\* whole, floored at 0; management, repairs and capex are shares of egi; the
\* reported opex is never negative.
C13_OpexFormula ==
    (pc = "metrics_done" /\ ~raised) =>
        LET m == metrics[1]
        IN /\ m.mgmt = EgiShare(deal.management_pct, MkF(8, -2))
           /\ m.repairs = EgiShare(deal.repairs_pct, MkF(6, -2))
           /\ m.capex = EgiShare(deal.capex_pct, MkF(4, -2))
           /\ m.opex = IF FGt(ScaledExpenses, Zero) THEN ScaledExpenses ELSE Zero
           /\ FGe(m.opex, Zero)

\* a negative egi whose shares outweigh the taxes, under a bias: opex is 0
C13_Witness ==
    /\ pc = "metrics_done"
    /\ ~raised
    /\ CalibGet(calib, "oer_bias") = MkF(1, -1)
    /\ FLt(metrics[1].egi, Zero)
    /\ FLt(ScaledExpenses, Zero)
    /\ metrics[1].opex = Zero


(* ---------- build_cashflows and the draft evaluation ---------- *)
\* build_cashflows up to its monthly loop
BuildStart ==
    /\ pc = "metrics_done"
    /\ ~raised
    /\ \E r \in {BuildSetup(deal, metrics[1], mi)} :
          IF r.exc
          THEN /\ raised' = TRUE
               /\ pc' = "build_failed"
               /\ UNCHANGED <<build, cashflows, obj>>
          ELSE /\ build' = r.b
               /\ cashflows' = <<r.b.equity0>>
               /\ obj' = Alloc(obj, "cashflows")
               /\ pc' = "build_loop"
               /\ UNCHANGED raised
    /\ UNCHANGED <<npvVars, irrVars, dealVars, mi, model, gradeVars>>
    /\ UNCHANGED extVars

\* one month of the loop
BuildMonth ==
    /\ pc = "build_loop"
    /\ build.month < build.months
    /\ \E r \in {MonthStep(build, mi, build.month + 1)} :
          IF r.exc
          THEN /\ raised' = TRUE
               /\ pc' = "build_failed"
               /\ UNCHANGED <<build, cashflows>>
          ELSE /\ build' = r.b
               /\ cashflows' = Append(cashflows, r.cf)
               /\ UNCHANGED <<pc, raised>>
    /\ UNCHANGED <<npvVars, irrVars, dealVars, mi, model, gradeVars>>
    /\ UNCHANGED <<obj, extVars>>

\* the sale appended as one more period
BuildSale_append ==
    /\ pc = "build_loop"
    /\ build.month = build.months
    /\ \E r \in {Sale(build, mi)} :
          IF r.exc
          THEN /\ raised' = TRUE
               /\ pc' = "build_failed"
               /\ UNCHANGED <<build, cashflows>>
          ELSE /\ build' = r.b
               /\ cashflows' = Append(cashflows, r.b.net_sale)
               /\ pc' = "irr_scan"
               /\ UNCHANGED raised
    /\ UNCHANGED <<npvVars, irrVars, dealVars, mi, model, gradeVars>>
    /\ UNCHANGED <<obj, extVars>>

\* after the loop: the sale added to the last entry, then irr_robust called
BuildSale ==
    /\ pc = "build_loop"
    /\ build.month = build.months
    /\ \E r \in {Sale(build, mi)} :
          IF r.exc
          THEN /\ raised' = TRUE
               /\ pc' = "build_failed"
               /\ UNCHANGED <<build, cashflows>>
          ELSE /\ build' = r.b
               /\ cashflows' = [cashflows EXCEPT ![Len(cashflows)] = FAdd(@, r.b.net_sale)]
               /\ pc' = "irr_scan"
               /\ UNCHANGED raised
    /\ UNCHANGED <<npvVars, irrVars, dealVars, mi, model, gradeVars>>
    /\ UNCHANGED <<obj, extVars>>

\* irr_robust has returned: the annual rate, the equity multiple, the result
BuildReturn ==
    /\ pc = "irr_done"
    /\ ~raised
    /\ \E r \in {Annualize(irr[1])} :
          IF r.exc
          THEN /\ raised' = TRUE
               /\ pc' = "build_failed"
               /\ UNCHANGED <<model, obj>>
          ELSE /\ obj' = Alloc(obj, "model")
               /\ model' = <<[cashflows |-> cashflows, irr_monthly |-> irr[1],
                              irr_annual |-> r.v,
                              equity_multiple |-> EquityMultiple(cashflows),
                              sale_price |-> build.sale_price, net_sale |-> build.net_sale,
                              end_loan_balance |-> build.loan_balance]>>
               /\ pc' = "grade"
               /\ UNCHANGED raised
    /\ UNCHANGED <<cashflows, npvVars, irrVars, dealVars, mi, build, gradeVars>>
    /\ UNCHANGED extVars

\* the model inputs of the end-to-end scenario
ScenarioInputs ==
    [hold_years |-> 5, rent_growth |-> MkF(3, -2), expense_growth |-> MkF(25, -3),
     exit_cap |-> MkF(65, -3), sale_cost_pct |-> MkF(5, -2),
     down_payment_pct |-> MkF(25, -2), interest_rate |-> MkF(65, -3), amort_years |-> 30]

InitE2E ==
    /\ pc = "metrics"
    /\ raised = FALSE
    /\ cashflows = <<>>
    /\ IdleNpv /\ IdleIrr
    /\ deal = ScenarioDeal
    /\ calib = ZeroCalib
    /\ metrics = <<>>
    /\ prev = <<>>
    /\ mi = ScenarioInputs
    /\ build = <<>>
    /\ model = <<>>
    /\ scoring_profile \in {Text(Str_Core), Text(lower(Str_Core))}
    /\ grade = <<>>
    /\ obj = Heap(<<"deal", "calib", "mi">>)
    /\ IdleExt

NextE2E ==
    \/ ComputeMetrics
    \/ BuildStart
    \/ BuildMonth
    \/ BuildSale
    \/ IrrScan
    \/ BisectStep
    \/ BisectExit
    \/ BuildReturn
    \/ Grade

SpecE2E == InitE2E /\ [][NextE2E]_vars


(* ---------- the scenario's claim ---------- *)
\* C9 (as amended): the scenario's deal, inputs, zero calibration and core
\* profile, run through compute_metrics, build_cashflows and aire_grade, yield
\* the letter A: only the low-IRR rule fires and the score is 92.
C9_ScenarioGradeA ==
    pc = "graded" =>
        /\ ~raised
        /\ grade[1].letter = "A"
        /\ grade[1].score = FromInt(92)
        /\ grade[1].flags = <<FlagIrrLow>>

\* the whole pipeline ran: 61 cash flows, an annual IRR between 1% and 3%
C9_Witness ==
    /\ pc = "graded"
    /\ Len(model[1].cashflows) = 61
    /\ FGt(model[1].irr_annual, MkF(1, -2))
    /\ FLt(model[1].irr_annual, MkF(3, -2))
    /\ FGt(metrics[1].cap_rate, MkF(45, -3))
    /\ grade[1].letter = "A"

\* C9 as stated: the letter is B or C
C9_ScenarioGradeBorC == pc = "graded" => grade[1].letter \in {"B", "C"}


(* ---------- build_cashflows on its own ---------- *)
MaxHold == 2

\* the scenario's deal with taxes above its income
LossDeal == [ScenarioDeal EXCEPT !.taxes = Num(FromInt(200000))]

\* a deal and the cap_rate put in its metrics (<<>>: the one compute_metrics gives)
BuildCases ==
    { [d |-> ScenarioDeal, cap |-> <<>>],
      [d |-> [ScenarioDeal EXCEPT !.price = NoneV], cap |-> <<>>],
      [d |-> [ScenarioDeal EXCEPT !.price = NoneV], cap |-> <<MkF(3, -2)>>],
      [d |-> [ScenarioDeal EXCEPT !.price = Num(Zero)], cap |-> <<MkF(8, -2)>>],
      [d |-> LossDeal, cap |-> <<>>],
      [d |-> [LossDeal EXCEPT !.price = Num(Zero)], cap |-> <<>>] }

\* the metrics argument of a case
CaseMetrics(c) ==
    LET Override(m) == IF c.cap = <<>> THEN m ELSE [m EXCEPT !.cap_rate = c.cap[1]]
    IN Override(compute_metrics(c.d, ZeroCalib).m)

BuildInputs ==
    { [ScenarioInputs EXCEPT !.hold_years = h, !.amort_years = n,
                             !.interest_rate = i, !.exit_cap = x] :
        h \in 1..MaxHold, n \in {1, 30},
        i \in {Zero, MkF(1, -17), MkF(65, -3)},
        x \in {MkF(65, -3), MkF(5, -3)} }
    \cup { [ScenarioInputs EXCEPT !.hold_years = 1, !.amort_years = 1,
                                  !.interest_rate = FromInt(1200)] }

InitBuild ==
    /\ pc = "metrics_done"
    /\ raised = FALSE
    /\ cashflows = <<>>
    /\ IdleNpv /\ IdleIrr /\ IdleGrade
    /\ calib = ZeroCalib
    /\ prev = <<>>
    /\ \E c \in BuildCases : deal = c.d /\ metrics = <<CaseMetrics(c)>>
    /\ mi \in BuildInputs
    /\ build = <<>>
    /\ model = <<>>
    /\ obj = Heap(<<"deal", "calib", "metrics", "mi">>)
    /\ IdleExt

NextBuild ==
    \/ BuildStart
    \/ BuildMonth
    \/ BuildSale
    \/ IrrScan
    \/ BisectStep
    \/ BisectExit
    \/ BuildReturn

SpecBuild == InitBuild /\ [][NextBuild]_vars


(* ---------- the claims about build_cashflows ---------- *)
\* build_cashflows has returned
Built == pc = "grade"

\* the deal's invariants: at least one unit, no negative amount, shares in [0, 1]
DealInvariant(d) ==
    /\ d.units.t = "num" => FGe(d.units.v, One)
    /\ \A k \in {"price", "avg_rent", "other_income_mo", "taxes", "insurance",
                 "hoa_mo", "utilities_mo"} : d[k].t = "num" => FGe(d[k].v, Zero)
    /\ \A k \in {"vacancy", "management_pct", "repairs_pct", "capex_pct"} :
          d[k].t = "num" => (FGe(d[k].v, Zero) /\ FLe(d[k].v, One))

\* the model inputs' invariants
InputsInvariant(inp) ==
    /\ inp.hold_years >= 1
    /\ inp.amort_years >= 1
    /\ FGt(inp.exit_cap, Zero)
    /\ FGe(inp.interest_rate, Zero)
    /\ FGt(inp.down_payment_pct, Zero) /\ FLt(inp.down_payment_pct, One)

\* C14: no core operation divides by zero or raises: oer is 0 when egi <= 0
\* and noi is egi - opex; pmt at a monthly rate of exactly 0 is the principal
\* over the number of periods; the equity multiple is 0 when the first cash
\* flow is 0; for inputs within their invariants nothing raises.
C14_NoDivisionByZero ==
    (DealInvariant(deal) /\ InputsInvariant(mi)) =>
        /\ ~raised
        /\ FLe(metrics[1].egi, Zero) => metrics[1].oer = Zero
        /\ metrics[1].noi = FSub(metrics[1].egi, metrics[1].opex)
        /\ (build # <<>> /\ mi.interest_rate = Zero)
              => build.pay = FDiv(build.loan0, FromInt(build.nper))
        /\ (Built /\ cashflows[1] = Zero) => model[1].equity_multiple = Zero

\* build_cashflows has returned or raised
BuildEnded == pc \in {"grade", "build_failed"}

\* C15: for a deal and model inputs within their invariants, build_cashflows
\* returns hold_years * 12 + 1 cash flows, the first of them
\* -price * down_payment_pct, a negative outflow.
C15_LengthAndOutflow ==
    (BuildEnded /\ DealInvariant(deal) /\ InputsInvariant(mi)) =>
        /\ Built
        /\ Len(model[1].cashflows) = mi.hold_years * 12 + 1
        /\ model[1].cashflows[1] = FMul(FNeg(build.price), mi.down_payment_pct)
        /\ FLt(model[1].cashflows[1], Zero)

\* C16: the sale leaves the number of entries at hold_years * 12 + 1 and every
\* entry but the last as it was; net_sale is sale_price - sale_price *
\* sale_cost_pct - the loan balance after the last month, and the last entry
\* becomes that month's (egi_m - opex_m - payment) plus net_sale.
C16_SaleAddedToLastEntry ==
    [][(pc = "build_loop" /\ pc' = "irr_scan") =>
          LET n == Len(cashflows)
              sp == build'.sale_price
          IN /\ n = mi.hold_years * 12 + 1
             /\ Len(cashflows') = n
             /\ \A i \in 1..(n - 1) : cashflows'[i] = cashflows[i]
             /\ build'.net_sale =
                    FSub(FSub(sp, FMul(sp, mi.sale_cost_pct)), build.loan_balance)
             /\ cashflows'[n] =
                    FAdd(FSub(NoiMonth(build, mi, (n - 2) \div 12).v, build.pay),
                         build'.net_sale)]_vars

\* after the sale of the longest hold: the last entry is the month before's
\* plus a positive net_sale
C16_Witness ==
    /\ pc = "irr_scan"
    /\ mi.hold_years = MaxHold
    /\ Len(cashflows) = MaxHold * 12 + 1
    /\ FGt(build.net_sale, Zero)
    /\ cashflows[Len(cashflows)] = FAdd(cashflows[Len(cashflows) - 1], build.net_sale)

\* the sale has been computed
SaleDone == pc \in {"irr_scan", "irr_bisect", "irr_done", "grade"}

\* 12 * (egi / 12 * (1 + rent_growth)^(hold_years - 1)
\*       - opex / 12 * (1 + expense_growth)^(hold_years - 1))
LastNoiAnnual ==
    FMul(FSub(FMul(FDiv(metrics[1].egi, FromInt(12)),
                   FPow(FAdd(One, mi.rent_growth), mi.hold_years - 1)),
              FMul(FDiv(metrics[1].opex, FromInt(12)),
                   FPow(FAdd(One, mi.expense_growth), mi.hold_years - 1))),
         FromInt(12))

\* C17 (as amended): sale_price is the last hold year's annualized NOI divided
\* by exit_cap when exit_cap > 0.01, and divided by 0.01 for every smaller
\* exit_cap.
C17_SalePriceFloored ==
    SaleDone =>
        build.sale_price =
            FDiv(LastNoiAnnual, IF FGt(mi.exit_cap, MkF(1, -2)) THEN mi.exit_cap
                                ELSE MkF(1, -2))

\* an exit cap of 0.005 after the longest hold: the NOI is divided by 0.01
C17_Witness ==
    /\ SaleDone
    /\ mi.exit_cap = MkF(5, -3)
    /\ mi.hold_years = MaxHold
    /\ FGt(build.sale_price, Zero)
    /\ build.sale_price = FDiv(LastNoiAnnual, MkF(1, -2))

\* C17 as stated: the NOI is divided by every exit_cap > 0
C17_SalePriceByExitCap ==
    (SaleDone /\ FGt(mi.exit_cap, Zero)) =>
        build.sale_price = FDiv(LastNoiAnnual, mi.exit_cap)

\* C18: with interest_rate >= 0 and a hold at least as long as the
\* amortization, the principal reductions add up to the initial loan: the
\* end_loan_balance reported is 0 within a millionth of the loan.
C18_AmortizationConservation ==
    (/\ Built
     /\ FGe(mi.interest_rate, Zero)
     /\ mi.hold_years * 12 >= mi.amort_years * 12)
    => FLe(FAbs(model[1].end_loan_balance), FMul(MkF(1, -6), FAbs(build.loan0)))

\* the deal's price is absent or zero
PriceMissing == deal.price = NoneV \/ (deal.price.t = "num" /\ deal.price.v = Zero)

\* C19: when the deal's price is absent or zero the price used is
\* noi / max(0.05, c), c being the metrics' cap_rate or 0.06 when that is 0;
\* a supplied positive price is used unchanged.
C19_PriceImputation ==
    (build # <<>>) =>
        /\ PriceMissing =>
              build.price = FDiv(metrics[1].noi,
                                 FMax(MkF(5, -2), IF metrics[1].cap_rate = Zero
                                                  THEN MkF(6, -2)
                                                  ELSE metrics[1].cap_rate))
        /\ (deal.price.t = "num" /\ FGt(deal.price.v, Zero)) =>
              build.price = deal.price.v

\* a cap rate of 0.03 is floored: the price imputed is noi / 0.05
C19_Witness ==
    /\ build # <<>>
    /\ PriceMissing
    /\ metrics[1].cap_rate = MkF(3, -2)
    /\ build.price = FDiv(metrics[1].noi, MkF(5, -2))
    /\ FGt(build.price, Zero)

\* C20: the irr_annual reported is (1 + irr_monthly)^12 - 1 for the monthly
\* rate the solver returned on the whole cash-flow list, and exactly -1.0
\* when that monthly rate is <= -0.999.
C20_AnnualIrr ==
    Built =>
        /\ model[1].cashflows = cashflows
        /\ Len(cashflows) = mi.hold_years * 12 + 1
        /\ model[1].irr_monthly = irr[1]
        /\ model[1].irr_annual =
              (IF FLe(irr[1], MkF(-999, -3)) THEN FromInt(-1)
               ELSE FSub(FPow(FAdd(One, irr[1]), 12), One))

\* a monthly rate of -inf from the fallback is reported as -1.0 a year
C20_Witness ==
    /\ Built
    /\ model[1].irr_monthly = NInf
    /\ model[1].irr_annual = FromInt(-1)

(* ---------- the grid scan and the bisection of irr_robust ---------- *)
\* pair i of the grid is scanned: both its NPVs are finite
Scanned(vals, i) == isfinite(vals[i]) /\ isfinite(vals[i + 1])

\* pair i ends the scan: a zero NPV at one of its points or a change of sign
EndsScan(vals, i) ==
    /\ Scanned(vals, i)
    /\ (FEq(vals[i], Zero) \/ FEq(vals[i + 1], Zero) \/ OppositeSigns(vals[i], vals[i + 1]))

\* the lowest pair that ends the scan, 0 when there is none
FirstEnd(vals) ==
    IF \E i \in 1..(Len(grid) - 1) : EndsScan(vals, i)
    THEN CHOOSE i \in 1..(Len(grid) - 1) :
            EndsScan(vals, i) /\ \A j \in 1..(i - 1) : ~EndsScan(vals, j)
    ELSE 0

\* C23: the scan takes the grid pairs in ascending order and skips the pairs
\* with a non-finite NPV; at the first scanned pair with a zero NPV it returns
\* that grid point, at the first with opposite signs the bisection starts
\* there, and its result lies in that lowest bracket.
C23_LowestBracket ==
    LET Holds(vals, k) ==
            /\ (pc = "irr_done" /\ via = "scan") =>
                  /\ k > 0
                  /\ IF FEq(vals[k], Zero) THEN irr[1] = grid[k]
                     ELSE FEq(vals[k + 1], Zero) /\ irr[1] = grid[k + 1]
            /\ (pc = "irr_bisect" /\ it = 0) =>
                  /\ k > 0
                  /\ OppositeSigns(vals[k], vals[k + 1])
                  /\ a = grid[k] /\ b = grid[k + 1]
                  /\ fa = vals[k] /\ fb = vals[k + 1]
            /\ (pc = "irr_done" /\ via \in {"bisect", "exit"}) =>
                  /\ k > 0
                  /\ OppositeSigns(vals[k], vals[k + 1])
                  /\ FLe(grid[k], irr[1]) /\ FLe(irr[1], grid[k + 1])
            /\ (pc = "irr_done" /\ via = "fallback") => k = 0
    IN (~raised /\ (pc = "irr_done" \/ (pc = "irr_bisect" /\ it = 0))) =>
          \A vals \in {GridVals(cashflows)} : \A k \in {FirstEnd(vals)} : Holds(vals, k)

\* the sequence with roots at 3% and 30%: the rate returned is the 3% one
C23_Witness ==
    /\ pc = "irr_done"
    /\ cashflows = TwoRoots
    /\ via = "bisect"
    /\ Near(irr[1], MkF(3, -2))
    /\ OppositeSigns(npv_safe(MkF(2, -1), TwoRoots).v, npv_safe(MkF(35, -2), TwoRoots).v)

\* a step of irr_robust moves pc or counts an iteration
Advance == pc' # pc \/ it' # it

\* irr_robust is sequential code that runs until it returns: weak fairness of
\* its steps, with their enabling condition (no return yet) written out
Running == []<>(pc = "irr_done") \/ []<><<Advance>>_vars
SpecIrrLive == SpecIrr /\ Running

\* what one pass of the loop body does from the bracket (a, b): at most two
\* NPV evaluations, the second only after a non-finite first
PassFrom(mid, f0) ==
    IF f0.exc \/ isfinite(f0.v) THEN [exc |-> f0.exc, mid |-> mid, fm |-> f0.v, evals |-> 1]
    ELSE LET Second(mid2, f1) == [exc |-> f1.exc, mid |-> mid2, fm |-> f1.v, evals |-> 2]
             At(mid2) == Second(mid2, npv_safe(mid2, cashflows))
         IN At(FDiv(FAdd(mid, a), Two))

\* C24: from a bracket the loop ends within 80 iterations; each iteration
\* evaluates NPV at the midpoint and, only when that is not finite, once more
\* halfway toward a; it returns the point as soon as |NPV| < 1e-6 and the
\* midpoint of the last bracket when the 80 iterations are used up.
C24_BisectionBounded ==
    /\ [](pc = "irr_bisect" => it <= 80)
    /\ [][pc = "irr_bisect" =>
            IF it = 80
            THEN pc' = "irr_done" /\ irr' = <<FDiv(FAdd(a, b), Two)>> /\ it' = it
            ELSE \A mid \in {FDiv(FAdd(a, b), Two)} :
                 \A p \in {PassFrom(mid, npv_safe(mid, cashflows))} :
                    /\ p.evals <= 2
                    /\ p.evals = 2 => p.mid = FDiv(FAdd(mid, a), Two)
                    /\ IF p.exc THEN raised'
                       ELSE IF FLt(FAbs(p.fm), MkF(1, -6))
                       THEN pc' = "irr_done" /\ irr' = <<p.mid>> /\ it' = it
                       ELSE /\ pc' = "irr_bisect" /\ it' = it + 1
                            /\ (a' = p.mid /\ b' = b) \/ (b' = p.mid /\ a' = a)]_vars
    /\ <>(pc = "irr_done")

\* the loop used all its 80 iterations and returned the last midpoint
C24_Witness ==
    /\ pc = "irr_done"
    /\ via = "exit"
    /\ it = 80
    /\ irr = <<FDiv(FAdd(a, b), Two)>>

\* the loop goes on to another iteration
Continues == pc = "irr_bisect" /\ pc' = "irr_bisect" /\ it' = it + 1

\* the bracket lies inside one pair of the grid
InsideGridPair == \E i \in 1..(Len(grid) - 1) : FLe(grid[i], a) /\ FLe(b, grid[i + 1])

\* C25 as stated: at the start of every iteration a < b, the NPVs at a and b
\* have strictly opposite signs, the bracket lies inside the grid bracket and
\* is strictly narrower than in the iteration before.
C25_StrictlyNarrower ==
    /\ [](pc = "irr_bisect" => FLt(a, b) /\ OppositeSigns(fa, fb) /\ InsideGridPair)
    /\ [][Continues => /\ FLe(a, a') /\ FLe(b', b)
                       /\ FLt(a, a') \/ FLt(b', b)]_vars

\* C25: at the start of every iteration a < b, the NPVs at a and b have
\* strictly opposite signs, and the bracket lies inside the grid bracket and
\* inside the bracket of the iteration before; it is strictly narrower unless
\* the midpoint computed is one of its two ends.
C25_BracketInvariant ==
    /\ [](pc = "irr_bisect" => FLt(a, b) /\ OppositeSigns(fa, fb) /\ InsideGridPair)
    /\ [][Continues =>
            /\ FLe(a, a') /\ FLe(b', b)
            /\ (a' = a /\ fa' = fa) \/ (b' = b /\ fb' = fb)
            /\ (FLt(a, FDiv(FAdd(a, b), Two)) /\ FLt(FDiv(FAdd(a, b), Two), b))
                  => (FLt(a, a') \/ FLt(b', b))]_vars

\* a bracket of two neighbouring floats after an iteration that kept it
C25_Witness ==
    /\ pc = "irr_bisect"
    /\ it > 0 /\ it < 80
    /\ FLt(a, b) /\ OppositeSigns(fa, fb)
    /\ FDiv(FAdd(a, b), Two) \in {a, b}

\* the value irr_robust returned is np.irr's
FromNumpy == via = "fallback" /\ ~np_irr.raises /\ ~IsNaN(np_irr.v)

\* C26: a result of irr_robust that is not np.irr's (a grid point, a
\* bisection point or the 0.0 sentinel) lies in [-0.95, 5.0]; build_cashflows
\* then does not take the irr_monthly <= -0.999 branch and reports an
\* irr_annual strictly greater than -1.
C26_ResultInGridRange ==
    /\ (pc \in {"irr_done", "grade"} /\ ~raised /\ ~FromNumpy) =>
          /\ FGe(irr[1], MkF(-95, -2)) /\ FLe(irr[1], FromInt(5))
          /\ FGt(irr[1], MkF(-999, -3))
    /\ (Built /\ ~FromNumpy) =>
          /\ model[1].irr_monthly = irr[1]
          /\ FGt(model[1].irr_annual, FromInt(-1))

\* the 0.0 sentinel after np.irr failed: the annual rate reported is 0.0
C26_Witness ==
    /\ Built
    /\ via = "fallback" /\ np_irr.raises
    /\ model[1].irr_monthly = Zero
    /\ model[1].irr_annual = Zero

(* ---------- the rule groups of aire_grade ---------- *)
\* the flags of the four rule groups
FlagGroups ==
    { {FlagOerHigh, FlagOerElevated, FlagOerLow}, {FlagCapNone, FlagCapLow, FlagCapHigh},
      {FlagVacHigh, FlagVacLow}, {FlagIrrLow, FlagIrrHigh} }

\* how many entries of the flag list belong to the group
FiredIn(flags, group) == Cardinality({i \in 1..Len(flags) : flags[i] \in group})

\* C27: at most one rule fires in each of the four groups, so there are at
\* most 4 flags and the score before the clamp is at least 46: the clamp at 0
\* never binds and only the clamp at 100 can change the score.
C27_ScoreFloor46 ==
    pc = "graded" =>
        /\ \A group \in FlagGroups : FiredIn(grade[1].flags, group) <= 1
        /\ Len(grade[1].flags) <= 4
        /\ FGe(grade[1].raw, FromInt(46))
        /\ FGe(grade[1].score, FromInt(46))
        /\ grade[1].score = (IF FGt(grade[1].raw, FromInt(100)) THEN FromInt(100)
                             ELSE grade[1].raw)

\* the worst case: one penalty in each group, a score of exactly 46
C27_Witness ==
    /\ pc = "graded"
    /\ Len(grade[1].flags) = 4
    /\ grade[1].raw = FromInt(46)
    /\ grade[1].score = FromInt(46)
    /\ grade[1].letter = "F"


(* ---------- the functions as their callers see them ---------- *)
\* the monthly loop of build_cashflows, from month bl.month on; [exc, b, cfs]
RECURSIVE MonthsFrom(_, _, _)
MonthsFrom(bl, inp, cfs) ==
    IF bl.month >= bl.months THEN [exc |-> FALSE, b |-> bl, cfs |-> cfs]
    ELSE CHOOSE done \in {IF r.exc THEN [exc |-> TRUE, b |-> bl, cfs |-> cfs]
                          ELSE MonthsFrom(r.b, inp, Append(cfs, r.cf)) :
                            r \in {MonthStep(bl, inp, bl.month + 1)}} : TRUE

\* one pass of the bisection loop on st = [a, b, fa, ret], ret being <<>>
\* until the loop has returned
BisectPass(st, cfs) ==
    IF st.ret # <<>> THEN st
    ELSE LET Then(s) ==
                 IF s.exc THEN [st EXCEPT !.ret = <<Raise>>]
                 ELSE IF Converged(s.fm) THEN [st EXCEPT !.ret = <<Ret(s.mid)>>]
                 ELSE IF OppositeSigns(st.fa, s.fm) THEN [st EXCEPT !.b = s.mid]
                 ELSE [st EXCEPT !.a = s.mid, !.fa = s.fm]
         IN Then(Midpoint(st.a, st.b, cfs))

\* n passes of the loop
RECURSIVE BisectPasses(_, _, _)
BisectPasses(n, st, cfs) ==
    IF n = 0 THEN st
    ELSE IF n = 1 THEN BisectPass(st, cfs)
    ELSE CHOOSE done \in {BisectPasses(n - (n \div 2), half, cfs) :
                            half \in {BisectPasses(n \div 2, st, cfs)}} : TRUE

\* irr_robust as one call: the set of its outcomes [exc, v], one for each
\* thing np.irr may do when the call reaches it
irr_robust(cfs) ==
    LET Left(st) == IF st.ret # <<>> THEN st.ret[1] ELSE Ret(FDiv(FAdd(st.a, st.b), Two))
        Chosen(vals, s) ==
            IF s.kind = "ret" THEN {Ret(s.v)}
            ELSE IF s.kind = "none" THEN {Ret(IrrFallback(np)) : np \in NpOutcomes}
            ELSE {Left(st) : st \in {BisectPasses(BisectIters,
                                                  [a |-> grid[s.i], b |-> grid[s.i + 1],
                                                   fa |-> vals[s.i], ret |-> <<>>], cfs)}}
    IN UNION {UNION {Chosen(vals, s) : s \in {Scan(vals, 1)}} : vals \in {GridVals(cfs)}}

\* build_cashflows as one call, its result read at "irr_annual": the set of
\* its outcomes [exc, v]
build_cashflows(d, m, inp) ==
    UNION {IF r.exc THEN {Raise} ELSE
      UNION {IF l.exc THEN {Raise} ELSE
        UNION {IF sl.exc THEN {Raise} ELSE
                 {IF x.exc THEN Raise ELSE Annualize(x.v) :
                    x \in irr_robust([l.cfs EXCEPT ![Len(l.cfs)] = FAdd(@, sl.b.net_sale)])}
               : sl \in {Sale(l.b, inp)}}
             : l \in {MonthsFrom(r.b, inp, <<r.b.equity0>>)}}
           : r \in {BuildSetup(d, m, inp)}}

\* the keyword arguments of the k-th what-if of quick_sensitivity, lines 925-927
Stress(k, inp) ==
    IF k = 1 THEN [inp EXCEPT !.exit_cap = FAdd(inp.exit_cap, MkF(5, -3))]
    ELSE IF k = 2 THEN [inp EXCEPT !.interest_rate = FAdd(inp.interest_rate, MkF(5, -3))]
    ELSE [inp EXCEPT !.rent_growth = FMax(Zero, FSub(inp.rent_growth, MkF(1, -2)))]

\* quick_sensitivity: the base case
SensBase ==
    /\ pc = "graded"
    /\ \E r \in build_cashflows(deal, metrics[1], mi) :
          IF r.exc
          THEN /\ sens' = <<[returned |-> TRUE, empty |-> TRUE]>>
               /\ obj' = Alloc(obj, "sens")
               /\ pc' = "sens_done"
          ELSE /\ sens' = <<[returned |-> FALSE, base_irr |-> r.v, irrs |-> <<>>]>>
               /\ pc' = "sens_whatif"
               /\ UNCHANGED obj
    /\ UNCHANGED <<raised, cashflows, npvVars, irrVars, dealVars, buildVars, gradeVars,
                   mi2, appVars, storeVars, inviteVars>>

\* _irr_with writing its keyword arguments into mi itself
SensWhatIf_inplace ==
    /\ pc = "sens_whatif"
    /\ Len(sens[1].irrs) < 3
    /\ \E inp \in {Stress(Len(sens[1].irrs) + 1, mi)} :
          /\ mi' = inp
          /\ mi2' = inp
          /\ obj' = [obj EXCEPT !["mi2"] = obj["mi"]]
          /\ \E r \in build_cashflows(deal, metrics[1], inp) :
                sens' = <<[sens[1] EXCEPT !.irrs =
                             Append(@, IF r.exc THEN sens[1].base_irr ELSE r.v)]>>
    /\ UNCHANGED <<pc, raised, cashflows, npvVars, irrVars, dealVars, build, model, gradeVars,
                   appVars, storeVars, inviteVars>>

\* one call of _irr_with: the keyword arguments written into a copy of mi
SensWhatIf ==
    /\ pc = "sens_whatif"
    /\ Len(sens[1].irrs) < 3
    /\ \E inp \in {Stress(Len(sens[1].irrs) + 1, mi)} :
          /\ mi2' = inp
          /\ obj' = Alloc(obj, "mi2")
          /\ \E r \in build_cashflows(deal, metrics[1], inp) :
                sens' = <<[sens[1] EXCEPT !.irrs =
                             Append(@, IF r.exc THEN sens[1].base_irr ELSE r.v)]>>
    /\ UNCHANGED <<pc, raised, cashflows, npvVars, irrVars, dealVars, buildVars, gradeVars,
                   appVars, storeVars, inviteVars>>

\* the result of quick_sensitivity
SensReturn ==
    /\ pc = "sens_whatif"
    /\ Len(sens[1].irrs) = 3
    /\ sens' = <<[returned |-> TRUE, empty |-> FALSE,
                  base |-> sens[1].base_irr,
                  exit_cap_50bps |-> FSub(sens[1].base_irr, sens[1].irrs[1]),
                  rate_50bps |-> FSub(sens[1].base_irr, sens[1].irrs[2]),
                  rent_growth_1pt |-> FSub(sens[1].base_irr, sens[1].irrs[3])]>>
    /\ obj' = Alloc(obj, "sens")
    /\ pc' = "sens_done"
    /\ UNCHANGED <<raised, cashflows, npvVars, irrVars, dealVars, buildVars, gradeVars,
                   mi2, appVars, storeVars, inviteVars>>

\* deals and inputs for one evaluation followed by the sensitivity probe
FrameDeals ==
    {ScenarioDeal, [ScenarioDeal EXCEPT !.price = Num(Zero)],
     [ScenarioDeal EXCEPT !.avg_rent = Num(FromInt(1500))]}

FrameInputs ==
    { [ScenarioInputs EXCEPT !.hold_years = 1, !.rent_growth = g, !.interest_rate = i] :
        g \in {MkF(3, -2), MkF(5, -3)}, i \in {MkF(65, -3)} }

InitFrame ==
    /\ pc = "metrics"
    /\ raised = FALSE
    /\ cashflows = <<>>
    /\ IdleNpv /\ IdleIrr
    /\ deal \in FrameDeals
    /\ calib = ZeroCalib
    /\ metrics = <<>>
    /\ prev = <<>>
    /\ mi \in FrameInputs
    /\ build = <<>>
    /\ model = <<>>
    /\ scoring_profile = Text(Str_Core)
    /\ grade = <<>>
    /\ obj = Heap(<<"deal", "calib", "mi">>)
    /\ IdleExt

NextFrame ==
    \/ ComputeMetrics
    \/ BuildStart
    \/ BuildMonth
    \/ BuildSale
    \/ IrrScan
    \/ BisectStep
    \/ BisectExit
    \/ BuildReturn
    \/ Grade
    \/ SensBase
    \/ SensWhatIf
    \/ SensReturn

SpecFrame == InitFrame /\ [][NextFrame]_vars


(* ---------- the claim about arguments and results ---------- *)
\* the names bound to what a call returns or builds
ResultNames == {"metrics", "cashflows", "model", "grade", "mi2", "sens"}

\* the step leaves the object bound to name n and its value as they were
Kept(n, before, after) == before = after /\ obj'[n] = obj[n]

\* every object a step binds is one that did not exist before the step
FreshResults ==
    \A n \in ResultNames :
        obj'[n] # obj[n] =>
            /\ obj'[n] = obj["next"]
            /\ obj'["next"] = obj["next"] + 1
            /\ \A k \in ObjNames : obj[k] < obj["next"]

\* C21: no step of compute_metrics, build_cashflows, irr_robust, aire_grade
\* or quick_sensitivity changes the deal, the calibration or the model
\* inputs it was given; the metrics, the finished cash-flow list, the model
\* and the grade stay as they were returned; every result is a new object;
\* and the what-if inputs of quick_sensitivity are an object other than mi.
C21_ArgumentsUnchanged ==
    [][/\ Kept("deal", deal, deal')
       /\ Kept("calib", calib, calib')
       /\ Kept("mi", mi, mi')
       /\ metrics # <<>> => Kept("metrics", metrics, metrics')
       /\ pc \in {"irr_scan", "irr_bisect", "irr_done"} => Kept("cashflows", cashflows, cashflows')
       /\ model # <<>> => Kept("model", model, model')
       /\ grade # <<>> => Kept("grade", grade, grade')
       /\ FreshResults
       /\ mi2' # <<>> => obj'["mi2"] \notin {0, obj'["mi"]}]_vars

\* quick_sensitivity returned its four numbers after three what-ifs, two of
\* which moved the IRR, the last on inputs that differ from mi
C21_Witness ==
    /\ pc = "sens_done"
    /\ ~sens[1].empty
    /\ FGt(sens[1].exit_cap_50bps, Zero)
    /\ FGt(sens[1].rate_50bps, Zero)
    /\ mi2 # mi
    /\ mi2.rent_growth = FSub(mi.rent_growth, MkF(1, -2))
    /\ obj["mi2"] # obj["mi"]
    /\ obj["grade"] > obj["model"]


(* ---------- the evaluation paths of the script ---------- *)
MaxRuns == 2

\* what get_calibration may return when a path reads it
AppCalibs == {ZeroCalib, [ZeroCalib EXCEPT !.vacancy_bias = <<MkF(5, -2)>>]}

\* the model inputs of the session
AppInputs == [ScenarioInputs EXCEPT !.hold_years = 1]

\* the deals a session works on and what a chat message makes of a deal
AppDeals == {ScenarioDeal, [ScenarioDeal EXCEPT !.price = Num(Zero)]}
ChatEdits(d) ==
    {[d EXCEPT !.avg_rent = Num(FromInt(1500))], [d EXCEPT !.taxes = Num(FromInt(22000))]} \ {d}

\* the memo a deal row holds: its model and grade are what an earlier
\* evaluation stored, neither of which enters what the paths below store
Earlier == [stored |-> TRUE]
StoredMemo(d, inp) ==
    [deal |-> d, metrics |-> compute_metrics(d, ZeroCalib).m, model |-> Earlier,
     grade |-> Earlier, model_inputs |-> inp]

\* the keys of table thread_memory and the table with no rows
MemKeys == {"global"}
NoMemory == [k \in MemKeys |-> <<>>]

\* get_thread_memory, lines 371-382: {} when there is no row
get_thread_memory(key) ==
    IF thread_memory[key] = <<>> THEN [n |-> 0, defaults |-> <<>>] ELSE thread_memory[key][1]

\* lines 410-421: the deal has no key "vacancy_rate" and the metrics none either
Snapshot(memo) ==
    [hold_years |-> FromInt(memo.model_inputs.hold_years),
     rent_growth |-> memo.model_inputs.rent_growth,
     expense_growth |-> memo.model_inputs.expense_growth,
     exit_cap |-> memo.model_inputs.exit_cap,
     sale_cost_pct |-> memo.model_inputs.sale_cost_pct,
     down_payment_pct |-> memo.model_inputs.down_payment_pct,
     interest_rate |-> memo.model_inputs.interest_rate,
     amort_years |-> FromInt(memo.model_inputs.amort_years),
     vacancy_rate |-> MkF(8, -2),
     expense_ratio |-> memo.metrics.oer]

\* _blend, lines 424-431
Blend(old, new, alpha) ==
    IF old = <<>> THEN new
    ELSE [k \in DOMAIN new |->
            FAdd(FMul(FSub(One, alpha), old[k]), FMul(alpha, new[k]))]

\* lines 434-437: the value update_memory_from_memo hands to upsert_thread_memory
GlobalMemory(memo) ==
    LET Blended(g_old, g_n) ==
            [n |-> g_n,
             defaults |-> Blend(g_old.defaults, Snapshot(memo),
                                FDiv(One, FromInt(IF g_n < 20 THEN g_n ELSE 20)))]
        Read(g_old) == Blended(g_old, g_old.n + 1)
    IN Read(get_thread_memory("global"))

\* the locals of a path as it starts its evaluation on deal d
StartEvaluation(d, inp, path) ==
    /\ calib' \in AppCalibs
    /\ deal' = d
    /\ mi' = inp
    /\ metrics' = <<>> /\ model' = <<>> /\ grade' = <<>> /\ build' = <<>>
    /\ cashflows' = <<>>
    /\ raised' = FALSE
    /\ pc' = "metrics"
    /\ target' = NaN /\ np_irr' = NoNp
    /\ a' = Zero /\ b' = Zero /\ fa' = Zero /\ fb' = Zero
    /\ it' = 0 /\ irr' = <<>> /\ via' = "none"
    /\ obj' = Heap(<<"deal", "calib", "mi">>)
    /\ session' = [session EXCEPT !.at = "eval", !.path = path, !.runs = @ + 1]
    /\ UNCHANGED <<npvVars, prev, scoring_profile, sensVars, storeVars, inviteVars>>

\* what a path leaves untouched when it only writes the session and the memo
PathFrame ==
    UNCHANGED <<pc, raised, cashflows, npvVars, irrVars, dealVars, buildVars, gradeVars,
                obj, sensVars, storeVars, inviteVars>>

\* a script run with a draft deal, lines 1338-1352
DraftEvaluation ==
    /\ session.at = "top"
    /\ session.mode = "draft"
    /\ session.runs < MaxRuns
    /\ memo_payload' = <<>>
    /\ StartEvaluation(session.deal, session.draft_model_inputs, "draft")

\* lines 1354-1359
DraftStore ==
    /\ session.at = "eval" /\ session.path = "draft"
    /\ pc = "graded"
    /\ memo_payload' = <<[deal |-> deal, metrics |-> metrics[1], grade |-> grade[1],
                          model |-> model[1], model_inputs |-> mi]>>
    /\ session' = [session EXCEPT !.at = "page"]
    /\ PathFrame

\* a script run on a saved thread, lines 1327-1329 and 1361-1362
OpenSaved ==
    /\ session.at = "top"
    /\ session.mode = "saved"
    /\ memo_payload' = <<deals[session.active_deal_id].memo>>
    /\ session' = [session EXCEPT !.at = "page", !.path = "saved"]
    /\ PathFrame

\* a chat message that changes the deal, lines 1446-1456
Chat ==
    /\ session.at = "page"
    /\ \E d \in ChatEdits(memo_payload[1].deal) :
          session' = IF session.mode = "draft"
                     THEN [session EXCEPT !.deal = d, !.at = "top"]
                     ELSE [session EXCEPT !.saved_working_deal = <<d>>, !.at = "top"]
    /\ memo_payload' = <<>>
    /\ PathFrame

\* 'Re-run analysis' up to its evaluation, lines 1478-1483
ReRunStart ==
    /\ session.at = "page"
    /\ session.runs < MaxRuns
    /\ UNCHANGED memo_payload
    /\ \E dcur \in {IF session.mode = "draft" THEN session.deal
                    ELSE IF session.saved_working_deal # <<>>
                    THEN session.saved_working_deal[1]
                    ELSE memo_payload[1].deal} :
          StartEvaluation(dcur, memo_payload[1].model_inputs, "rerun")

\* 'Re-run analysis' storing a memo from which the new metrics are left out
ReRunStore_stalemetrics ==
    /\ session.at = "eval" /\ session.path = "rerun"
    /\ pc = "graded"
    /\ \E memo \in {[memo_payload[1] EXCEPT !.deal = deal,
                                            !.model = model[1], !.grade = grade[1],
                                            !.model_inputs = mi]} :
          session' = IF session.mode = "draft"
                     THEN [session EXCEPT !.deal = deal, !.draft_model_inputs = mi,
                                          !.at = "top"]
                     ELSE [session EXCEPT !.saved_working_memo = <<memo>>, !.at = "top"]
    /\ memo_payload' = <<>>
    /\ PathFrame

\* 'Re-run analysis' from memo_payload.update to st.rerun, lines 1489-1495
ReRunStore ==
    /\ session.at = "eval" /\ session.path = "rerun"
    /\ pc = "graded"
    /\ \E memo \in {[memo_payload[1] EXCEPT !.deal = deal, !.metrics = metrics[1],
                                            !.model = model[1], !.grade = grade[1],
                                            !.model_inputs = mi]} :
          session' = IF session.mode = "draft"
                     THEN [session EXCEPT !.deal = deal, !.draft_model_inputs = mi,
                                          !.at = "top"]
                     ELSE [session EXCEPT !.saved_working_memo = <<memo>>, !.at = "top"]
    /\ memo_payload' = <<>>
    /\ PathFrame

\* 'Update thread (new version)', line 1521: update_memory_from_memo up to
\* its call of upsert_thread_memory for the global row
UpdateThread ==
    /\ session.at = "page"
    /\ session.mode = "saved"
    /\ memo_payload # <<>>
    /\ session' = [session EXCEPT !.at = "upsert", !.path = "update",
                                   !.mem = <<[key |-> "global",
                                              value |-> GlobalMemory(memo_payload[1])]>>]
    /\ UNCHANGED memo_payload
    /\ PathFrame

\* 'Save as new thread', line 1505: the same call
SaveAsNewThread ==
    /\ session.at = "page"
    /\ session.mode = "draft"
    /\ memo_payload # <<>>
    /\ session' = [session EXCEPT !.at = "upsert", !.path = "save",
                                   !.mem = <<[key |-> "global",
                                              value |-> GlobalMemory(memo_payload[1])]>>]
    /\ UNCHANGED memo_payload
    /\ PathFrame

\* upsert_thread_memory, lines 384-393: the arguments of cur.execute are
\* evaluated first and datetime.datetime.utcnow() raises AttributeError
\* (datetime is the class, line 3), so no statement reaches the table and
\* the exception ends the handler and the script run
UpsertThreadMemory ==
    /\ session.at = "upsert"
    /\ session' = [session EXCEPT !.at = "failed"]
    /\ memo_payload' = <<>>
    /\ PathFrame

\* the user acts on the page that shows the exception: the script runs again
RunAgain ==
    /\ session.at = "failed"
    /\ session' = [session EXCEPT !.at = "top", !.mem = <<>>]
    /\ UNCHANGED memo_payload
    /\ PathFrame

InitApp ==
    /\ pc = "idle"
    /\ raised = FALSE
    /\ cashflows = <<>>
    /\ IdleNpv /\ IdleIrr
    /\ deal = <<>> /\ calib = ZeroCalib /\ metrics = <<>> /\ prev = <<>>
    /\ mi = <<>> /\ build = <<>> /\ model = <<>>
    /\ scoring_profile = Text(Str_Core)
    /\ grade = <<>>
    /\ obj = Heap(<<>>)
    /\ IdleSens /\ IdleInvite
    /\ memo_payload = <<>>
    /\ thread_memory = NoMemory
    /\ sess = <<>>
    /\ \E d \in AppDeals :
          \/ /\ session = [mode |-> "draft", at |-> "top", path |-> "none", runs |-> 0,
                           deal |-> d, draft_model_inputs |-> AppInputs,
                           active_deal_id |-> 0, mem |-> <<>>,
                           saved_working_deal |-> <<>>, saved_working_memo |-> <<>>]
             /\ deals = <<>>
             /\ deal_versions = {}
          \/ /\ session = [mode |-> "saved", at |-> "top", path |-> "none", runs |-> 0,
                           deal |-> <<>>, draft_model_inputs |-> <<>>,
                           active_deal_id |-> 1, mem |-> <<>>,
                           saved_working_deal |-> <<>>, saved_working_memo |-> <<>>]
             /\ deals = <<[id |-> 1, memo |-> StoredMemo(d, AppInputs)]>>
             /\ deal_versions = {[deal_id |-> 1, version_num |-> 1,
                                  reason |-> "initial_save",
                                  memo |-> StoredMemo(d, AppInputs)]}

NextApp ==
    \/ DraftEvaluation
    \/ ComputeMetrics
    \/ BuildStart
    \/ BuildMonth
    \/ BuildSale
    \/ IrrScan
    \/ BisectStep
    \/ BisectExit
    \/ BuildReturn
    \/ Grade
    \/ DraftStore
    \/ OpenSaved
    \/ Chat
    \/ ReRunStart
    \/ ReRunStore
    \/ UpdateThread
    \/ SaveAsNewThread
    \/ UpsertThreadMemory
    \/ RunAgain

SpecApp == InitApp /\ [][NextApp]_vars



(* ---------- the claim about the evaluation paths ---------- *)
\* the memo holds the metrics of its deal under one calibration, the grade of
\* those metrics and of its model's irr_annual under that calibration, and an
\* irr_annual that build_cashflows gives for its deal, metrics and inputs
Consistent(memo) ==
    /\ \E c \in AppCalibs : \A cm \in {compute_metrics(memo.deal, c)} :
          /\ ~cm.exc
          /\ memo.metrics = cm.m
          /\ memo.grade = aire_grade(memo.metrics, memo.model.irr_annual, c, scoring_profile)
    /\ \E x \in build_cashflows(memo.deal, memo.metrics, memo.model_inputs) :
          ~x.exc /\ x.v = memo.model.irr_annual

\* where an evaluation stands, by which of its results exist
StagesInOrder ==
    session.at = "eval" =>
        /\ pc = "metrics" => metrics = <<>> /\ model = <<>> /\ grade = <<>>
        /\ pc \in {"metrics_done", "build_loop", "irr_scan", "irr_bisect", "irr_done"} =>
              (raised \/ metrics # <<>>) /\ model = <<>> /\ grade = <<>>
        /\ pc = "grade" => metrics # <<>> /\ model # <<>> /\ grade = <<>>
        /\ pc = "graded" => metrics # <<>> /\ model # <<>> /\ grade # <<>>

\* the working memo 'Re-run analysis' has just put in the session
JustStored ==
    /\ session.at = "top"
    /\ session.path = "rerun"
    /\ session.saved_working_memo # <<>>

\* C22: in the draft evaluation and in 'Re-run analysis' the metrics exist
\* before the model and the model before the grade, all three made anew in
\* that evaluation; the memo of a draft run and the working memo Re-run
\* stores hold metrics, model and grade of one evaluation of the memo's deal
\* under one calibration.
C22_OneEvaluationPerMemo ==
    /\ StagesInOrder
    /\ (session.at = "page" /\ session.mode = "draft") => Consistent(memo_payload[1])
    /\ JustStored => Consistent(session.saved_working_memo[1])

\* Re-run on a saved thread stored a working memo for a deal the chat had
\* changed, under the non-zero calibration
C22_Witness ==
    /\ JustStored
    /\ session.mode = "saved"
    /\ session.saved_working_deal # <<>>
    /\ session.saved_working_memo[1].deal = session.saved_working_deal[1]
    /\ session.saved_working_memo[1].deal # deals[1].memo.deal
    /\ calib # ZeroCalib
    /\ session.saved_working_memo[1].metrics = metrics[1]



(* ---------- the claim about thread memory ---------- *)
\* a handler has made its call of upsert_thread_memory
UpsertCalled == session.mem # <<>> /\ session.at # "upsert"

\* C30 as stated: the call of upsert_thread_memory completes without error, a
\* get_thread_memory of the same key then returns the value written, and
\* 'Save as new thread' has stored the deal row and its version-1 row.
C30_MemoryRoundTrip ==
    UpsertCalled =>
        /\ session.at # "failed"
        /\ get_thread_memory(session.mem[1].key) = session.mem[1].value
        /\ session.path = "save" =>
              /\ deals # <<>>
              /\ \E v \in deal_versions : v.version_num = 1



(* ---------- the version history, two sessions on one database ---------- *)
\* sessions of one workspace; each statement on the shared database file is
\* atomic and commits, the statements of two sessions interleave
Sessions == {"s1", "s2"}
MaxDeals == 2
MaxUpdates == 2

\* the memo a session stores with its n-th write, told apart by who wrote it
MemoOf(s, n) == [by |-> s, n |-> n]

\* INSERT OR REPLACE INTO deal_versions, lines 485-488, under
\* UNIQUE(workspace_id, deal_id, version_num), line 236
save_deal_version(tbl, deal_id, version_num, reason, payload) ==
    {v \in tbl : ~(v.deal_id = deal_id /\ v.version_num = version_num)}
        \cup {[deal_id |-> deal_id, version_num |-> version_num,
               reason |-> reason, memo |-> payload]}

\* SELECT COALESCE(MAX(version_num), 0) ... + 1, lines 493-494
next_version_num(tbl, deal_id) ==
    LET nums == {v.version_num : v \in {w \in tbl : w.deal_id = deal_id}}
    IN IF nums = {} THEN 1
       ELSE (CHOOSE x \in nums : \A y \in nums : y <= x) + 1

VersionsFrame ==
    UNCHANGED <<pc, raised, cashflows, npvVars, irrVars, dealVars, buildVars, gradeVars,
                obj, sensVars, appVars, inviteVars, thread_memory>>

\* save_deal, lines 498-502: the deals row is inserted and committed
SaveDealInsert(s) ==
    /\ sess[s].at = "idle"
    /\ Len(deals) < MaxDeals
    /\ deals' = Append(deals, [id |-> Len(deals) + 1, memo |-> MemoOf(s, sess[s].n)])
    /\ sess' = [sess EXCEPT ![s].at = "save_deal", ![s].did = Len(deals) + 1]
    /\ UNCHANGED deal_versions
    /\ VersionsFrame

\* save_deal, line 504, and lines 1509-1512: version 1, the thread is opened
SaveDealVersion(s) ==
    /\ sess[s].at = "save_deal"
    /\ deal_versions' = save_deal_version(deal_versions, sess[s].did, 1,
                                          "initial_save", MemoOf(s, sess[s].n))
    /\ sess' = [sess EXCEPT ![s].at = "idle", ![s].active_deal_id = sess[s].did,
                            ![s].n = sess[s].n + 1]
    /\ UNCHANGED deals
    /\ VersionsFrame

\* a thread of the workspace is picked in the sidebar
OpenThread(s) ==
    /\ sess[s].at = "idle"
    /\ \E id \in 1..Len(deals) :
          /\ id # sess[s].active_deal_id
          /\ sess' = [sess EXCEPT ![s].active_deal_id = id]
    /\ UNCHANGED <<deals, deal_versions>>
    /\ VersionsFrame

\* 'Update thread', lines 1532-1534: update_deal_latest, then next_version_num
UpdateThreadRead(s) ==
    /\ sess[s].at = "idle"
    /\ sess[s].active_deal_id # 0
    /\ sess[s].updates < MaxUpdates
    /\ deals' = [deals EXCEPT ![sess[s].active_deal_id].memo = MemoOf(s, sess[s].n)]
    /\ sess' = [sess EXCEPT ![s].at = "update",
                            ![s].vnum = next_version_num(deal_versions,
                                                         sess[s].active_deal_id)]
    /\ UNCHANGED deal_versions
    /\ VersionsFrame

\* 'Update thread', lines 1535-1536: save_deal_version under the number read
UpdateThreadWrite(s) ==
    /\ sess[s].at = "update"
    /\ deal_versions' = save_deal_version(deal_versions, sess[s].active_deal_id,
                                          sess[s].vnum, "thread_update",
                                          MemoOf(s, sess[s].n))
    /\ sess' = [sess EXCEPT ![s].at = "idle", ![s].n = sess[s].n + 1,
                            ![s].updates = sess[s].updates + 1]
    /\ UNCHANGED deals
    /\ VersionsFrame

InitVersions ==
    /\ pc = "idle"
    /\ raised = FALSE
    /\ cashflows = <<>>
    /\ IdleNpv /\ IdleIrr
    /\ deal = <<>> /\ calib = ZeroCalib /\ metrics = <<>> /\ prev = <<>>
    /\ mi = <<>> /\ build = <<>> /\ model = <<>>
    /\ scoring_profile = Text(Str_Core)
    /\ grade = <<>>
    /\ obj = Heap(<<>>)
    /\ IdleSens /\ IdleApp /\ IdleInvite
    /\ thread_memory = <<>>
    /\ deals = <<>>
    /\ deal_versions = {}
    /\ sess = [s \in Sessions |->
                 [at |-> "idle", active_deal_id |-> 0, did |-> 0, vnum |-> 0,
                  n |-> 1, updates |-> 0]]

NextVersions ==
    \/ \E s \in Sessions : SaveDealInsert(s)
    \/ \E s \in Sessions : SaveDealVersion(s)
    \/ \E s \in Sessions : OpenThread(s)
    \/ \E s \in Sessions : UpdateThreadRead(s)
    \/ \E s \in Sessions : UpdateThreadWrite(s)

SpecVersions == InitVersions /\ [][NextVersions]_vars

\* the rows a step adds to deal_versions
NewVersions == deal_versions' \ deal_versions

\* C28 as stated: the version history is append-only and gap-free per deal.
\* In every step no existing deal_versions row is overwritten or lost, a new
\* row is numbered one more than its deal's previous maximum, save_deal's
\* second statement adds version 1, and each completed 'Update thread' adds
\* exactly one row -- also when two sessions update one deal concurrently.
C28_AppendOnlyGapFree ==
    [][ /\ deal_versions \subseteq deal_versions'
        /\ \A v \in NewVersions :
              v.version_num = next_version_num(deal_versions, v.deal_id)
        /\ \A s \in Sessions :
              sess[s].at \in {"save_deal", "update"} /\ sess'[s].at = "idle"
                  => Cardinality(NewVersions) = 1 ]_vars



(* ---------- invitations and roles ---------- *)
Emails == {"ana@x.io", "bo@x.io"}
\* the roles of the selectbox at line 1303
Roles == {"analyst", "admin"}
MaxInvites == 2

\* the row of a table with the given email, as a set of at most one row
RowOf(tbl, email) == {r \in tbl : r.email = email}

\* ensure_user, lines 289-293: INSERT OR IGNORE under UNIQUE(email, workspace_id)
ensure_user(tbl, email, role) ==
    IF RowOf(tbl, email) # {} THEN tbl ELSE tbl \cup {[email |-> email, role |-> role]}

\* get_user_role, lines 295-299
get_user_role(tbl, email) ==
    IF RowOf(tbl, email) = {} THEN "analyst"
    ELSE (CHOOSE r \in RowOf(tbl, email) : TRUE).role

InviteFrame ==
    UNCHANGED <<pc, raised, cashflows, npvVars, irrVars, dealVars, buildVars, gradeVars,
                obj, sensVars, appVars, storeVars>>

\* 'Generate invite' in the run of an admin's session, lines 1300-1306, and
\* upsert_invite, lines 311-323: a new code; a row already there gets the new
\* role and code and accepted_at = NULL
UpsertInvite(s) ==
    /\ inv.run[s].at = "idle"
    /\ RowOf(users, inv.run[s].email) # {}
    /\ get_user_role(users, inv.run[s].email) = "admin"
    /\ inv.issued < MaxInvites
    /\ \E email \in Emails, role \in Roles :
          invitations' = (invitations \ RowOf(invitations, email))
                            \cup {[email |-> email, role |-> role,
                                   code |-> inv.issued + 1, accepted_at |-> FALSE]}
    /\ inv' = [inv EXCEPT !.issued = inv.issued + 1]
    /\ UNCHANGED users
    /\ InviteFrame

\* a script run with ?invite=code, line 1090; accept_invite, lines 326-335:
\* the SELECT and the three checks
AcceptSelect(s) ==
    /\ inv.run[s].at = "idle"
    /\ \E code \in 1..inv.issued :
          LET row == RowOf(invitations, inv.run[s].email)
              found == CHOOSE r \in row : TRUE
          IN IF row = {} \/ found.code # code \/ found.accepted_at
             THEN inv' = [inv EXCEPT !.run[s].at = "default", !.run[s].ok = "no",
                                     !.run[s].role = "none"]
             ELSE inv' = [inv EXCEPT !.run[s].at = "ensure", !.run[s].ok = "none",
                                     !.run[s].role = found.role]
    /\ UNCHANGED <<users, invitations>>
    /\ InviteFrame

\* accept_invite, line 336: ensure_user(email, workspace_id, role)
AcceptEnsureUser(s) ==
    /\ inv.run[s].at = "ensure"
    /\ users' = ensure_user(users, inv.run[s].email, inv.run[s].role)
    /\ inv' = [inv EXCEPT !.run[s].at = "mark"]
    /\ UNCHANGED invitations
    /\ InviteFrame

\* accept_invite, lines 337-339: accepted_at is set, the call returns success
\* naming the role read from the invitation
AcceptMark(s) ==
    /\ inv.run[s].at = "mark"
    /\ invitations' = {[r EXCEPT !.accepted_at = (r.email = inv.run[s].email) \/ @] :
                         r \in invitations}
    /\ inv' = [inv EXCEPT !.run[s].at = "default", !.run[s].ok = "yes"]
    /\ UNCHANGED users
    /\ InviteFrame

\* lines 1097-1104, the end of every script run with an email: the default
\* role is admin for the first user of the workspace, analyst otherwise
DefaultEnsureUser(s) ==
    /\ inv.run[s].at \in {"idle", "default"}
    /\ users' = ensure_user(users, inv.run[s].email,
                            IF users = {} THEN "admin" ELSE "analyst")
    /\ inv' = [inv EXCEPT !.run[s].at = "idle", !.run[s].ok = "none",
                          !.run[s].role = "none"]
    /\ inv' # inv \/ users' # users
    /\ UNCHANGED invitations
    /\ InviteFrame

InitInvite ==
    /\ pc = "idle"
    /\ raised = FALSE
    /\ cashflows = <<>>
    /\ IdleNpv /\ IdleIrr
    /\ deal = <<>> /\ calib = ZeroCalib /\ metrics = <<>> /\ prev = <<>>
    /\ mi = <<>> /\ build = <<>> /\ model = <<>>
    /\ scoring_profile = Text(Str_Core)
    /\ grade = <<>>
    /\ obj = Heap(<<>>)
    /\ IdleSens /\ IdleApp /\ IdleStore
    /\ users = {}
    /\ invitations = {}
    /\ \E who \in [Sessions -> Emails] :
          inv = [issued |-> 0,
                 run |-> [s \in Sessions |->
                            [at |-> "idle", email |-> who[s], role |-> "none",
                             ok |-> "none"]]]

NextInvite ==
    \/ \E s \in Sessions : UpsertInvite(s)
    \/ \E s \in Sessions : AcceptSelect(s)
    \/ \E s \in Sessions : AcceptEnsureUser(s)
    \/ \E s \in Sessions : AcceptMark(s)
    \/ \E s \in Sessions : DefaultEnsureUser(s)

SpecInvite == InitInvite /\ [][NextInvite]_vars

\* session s's call of accept_invite returns success in this step
AcceptReturnsSuccess(s) == inv.run[s].at = "mark" /\ inv'.run[s].ok = "yes"

\* C29 as stated: whenever accept_invite returns success, the user's role in
\* the workspace afterwards is the role named in the invitation and reported
\* by the message, whether or not a user row existed before; and the
\* invitation it succeeds on has not been accepted since it was last issued.
C29_AcceptedRoleIsInvitedRole ==
    [][ \A s \in Sessions :
          AcceptReturnsSuccess(s) =>
              /\ get_user_role(users', inv.run[s].email) = inv.run[s].role
              /\ \A r \in RowOf(invitations, inv.run[s].email) : ~r.accepted_at ]_vars

====
